---- MODULE Spec2Model ----
(***************************************************************************)
(* Verification model of the LoneCodeGuardian review action:               *)
(*   - main (entry point), InputProcessor.processInputs,                   *)
(*   - AnthropicAgent.doReview and GoogleAgent.doReview,                   *)
(*   - the incremental baseline resolver.                                  *)
(* Strings are sequences of one-character strings, so that startsWith,     *)
(* split, replace and trim are computed as the code computes them.         *)
(***************************************************************************)
EXTENDS Integers, Sequences, FiniteSets, TLC

(***************************************************************************)
(* Program constants                                                       *)
(***************************************************************************)
maxRetries == 3
MAX_TOTAL_STEPS == 50
maxSteps == 10
initialBackoff == 1000
perPage == 100
searchRadius == 10
contextWindow == 3
shortLine == 10

\* "AI review done up to commit: "
AI_REVIEW_COMMENT_PREFIX ==
    << "A","I"," ","r","e","v","i","e","w"," ","d","o","n","e"," ",
       "u","p"," ","t","o"," ","c","o","m","m","i","t",":"," " >>

\* "\n\n### AI Review Summary:\n"
SUMMARY_SEPARATOR ==
    << "\n","\n","#","#","#"," ","A","I"," ","R","e","v","i","e","w"," ",
       "S","u","m","m","a","r","y",":","\n" >>

(***************************************************************************)
(* Bounds of the model                                                     *)
(***************************************************************************)
MaxFiles == 2
BudgetFiles == 6
MaxIssues == 2
MaxContinues == 2
MaxToolCalls == 2
MaxComments == 3
MaxEarlier == 1
MaxLine == 12
MaxPages == 3
MaxCalls == 2
MaxActions == 2
MaxRuns == 2

(***************************************************************************)
(* String library (JavaScript String and Array methods used by the code)   *)
(***************************************************************************)
Max(S) == CHOOSE x \in S : \A y \in S : y <= x
Min(S) == CHOOSE x \in S : \A y \in S : x <= y

WhiteSpace == {" ", "\n", "\t"}

UpperChars == << "A","B","C","D","E","F","G","H","I","J","K","L","M",
                 "N","O","P","Q","R","S","T","U","V","W","X","Y","Z" >>
LowerChars == << "a","b","c","d","e","f","g","h","i","j","k","l","m",
                 "n","o","p","q","r","s","t","u","v","w","x","y","z" >>
DigitChars == {"0","1","2","3","4","5","6","7","8","9"}

Range(f) == {f[i] : i \in DOMAIN f}

\* String.prototype.toLowerCase
LowerChar(c) ==
    IF \E i \in 1..26 : UpperChars[i] = c
    THEN LowerChars[CHOOSE i \in 1..26 : UpperChars[i] = c]
    ELSE c
toLowerCase(s) == [i \in 1..Len(s) |-> LowerChar(s[i])]

\* String.prototype.startsWith
startsWith(s, p) == Len(p) <= Len(s) /\ SubSeq(s, 1, Len(p)) = p

\* String.prototype.endsWith
endsWith(s, p) == Len(p) <= Len(s) /\ SubSeq(s, Len(s) - Len(p) + 1, Len(s)) = p

\* String.prototype.indexOf, 1-based; 0 when p does not occur
indexOf(s, p) ==
    LET hits == {i \in 1..(Len(s) - Len(p) + 1) : SubSeq(s, i, i + Len(p) - 1) = p}
    IN IF hits = {} THEN 0 ELSE Min(hits)

\* String.prototype.includes
includes(s, p) == indexOf(s, p) > 0

\* s.split(sep)[0]
splitFirst(s, sep) ==
    LET i == indexOf(s, sep) IN IF i = 0 THEN s ELSE SubSeq(s, 1, i - 1)

\* s.replace(p, ""): removes the first occurrence only
replaceFirst(s, p) ==
    LET i == indexOf(s, p)
    IN IF i = 0 THEN s ELSE SubSeq(s, 1, i - 1) \o SubSeq(s, i + Len(p), Len(s))

\* String.prototype.trim
trim(s) ==
    LET keep == {i \in 1..Len(s) : s[i] \notin WhiteSpace}
    IN IF keep = {} THEN << >> ELSE SubSeq(s, Min(keep), Max(keep))

\* Array.prototype.join("\n")
RECURSIVE joinLines(_)
joinLines(ls) ==
    IF ls = << >> THEN << >>
    ELSE IF Len(ls) = 1 THEN ls[1]
    ELSE ls[1] \o << "\n" >> \o joinLines(Tail(ls))

\* Array.prototype.slice(from, to) with 0-based, end-exclusive indices
slice(a, from, to) == SubSeq(a, from + 1, to)

(***************************************************************************)
(* Commit SHAs and texts of the model                                      *)
(***************************************************************************)
ShaA == << "a","b","c","1","2","3" >>
ShaB == << "d","e","f","4" >>
PrBaseSha == << "b","a","5","e" >>
HeadSha == << "f","e","e","d" >>

TextOk == << "o","k" >>
TextBlank == << " ","\n" >>
TextEmpty == << >>

\* the body without the separator between the SHA and the summary
commentBodyNoSeparator(headCommit, reviewSummary) ==
    AI_REVIEW_COMMENT_PREFIX \o headCommit \o reviewSummary

\* main: `${AI_REVIEW_COMMENT_PREFIX}${headCommit}${SUMMARY_SEPARATOR}${reviewSummary}`
commentBody(headCommit, reviewSummary) ==
    AI_REVIEW_COMMENT_PREFIX \o headCommit \o SUMMARY_SEPARATOR \o reviewSummary

(***************************************************************************)
(* Relevance heuristics of AnthropicAgent                                  *)
(***************************************************************************)
IsWordChar(c) == c \in Range(LowerChars) \cup DigitChars \cup {"_"}
IsIdStart(c) == c \in Range(LowerChars) \cup Range(UpperChars) \cup {"_", "$"}
IsIdChar(c) == IsIdStart(c) \/ c \in DigitChars

\* text.split(/[^a-z0-9_]+/) without its empty pieces (the length filter of
\* extractKeywords drops them anyway): the maximal runs of word characters
RECURSIVE wordRuns(_, _, _)
wordRuns(s, i, cur) ==
    IF i > Len(s) THEN (IF cur = << >> THEN << >> ELSE << cur >>)
    ELSE IF IsWordChar(s[i]) THEN wordRuns(s, i + 1, Append(cur, s[i]))
    ELSE (IF cur = << >> THEN << >> ELSE << cur >>) \o wordRuns(s, i + 1, << >>)

StopWords ==
    { <<"t","h","e">>, <<"a","n","d">>, <<"f","o","r">>, <<"t","h","a","t">>,
      <<"t","h","i","s">>, <<"w","i","t","h">>, <<"h","a","v","e">>,
      <<"f","r","o","m">> }

extractKeywords(text) ==
    SelectSeq(wordRuns(toLowerCase(text), 1, << >>),
              LAMBDA w : Len(w) > 2 /\ w \notin StopWords)

\* lineContent.match(/[a-zA-Z_$][a-zA-Z0-9_$]*/g)
RECURSIVE idRuns(_, _, _)
idRuns(s, i, cur) ==
    IF i > Len(s) THEN (IF cur = << >> THEN << >> ELSE << cur >>)
    ELSE IF cur = << >>
         THEN idRuns(s, i + 1, IF IsIdStart(s[i]) THEN << s[i] >> ELSE << >>)
    ELSE IF IsIdChar(s[i]) THEN idRuns(s, i + 1, Append(cur, s[i]))
    ELSE << cur >> \o idRuns(s, i + 1, << >>)

CodeKeywords ==
    { <<"i","f">>, <<"f","o","r">>, <<"w","h","i","l","e">>,
      <<"f","u","n","c","t","i","o","n">>, <<"c","o","n","s","t">>,
      <<"l","e","t">>, <<"v","a","r">>, <<"r","e","t","u","r","n">>,
      <<"b","r","e","a","k">>, <<"c","o","n","t","i","n","u","e">> }

extractIdentifiers(lineContent) ==
    SelectSeq(idRuns(lineContent, 1, << >>), LAMBDA m : m \notin CodeKeywords)

hasCommonKeywords(text1, text2) ==
    \E k \in Range(extractKeywords(text1)) : k \in Range(extractKeywords(text2))

isCommentRelevantToLineContent(comment, lineContent, contextLines) ==
    IF Len(lineContent) < shortLine
    THEN hasCommonKeywords(comment, contextLines)
    ELSE hasCommonKeywords(comment, lineContent)
         \/ hasCommonKeywords(comment, contextLines)

DeclWords ==
    { <<"f","u","n","c","t","i","o","n">>, <<"c","o","n","s","t"," ">>,
      <<"l","e","t"," ">>, <<"v","a","r"," ">>, <<"c","l","a","s","s"," ">> }

calculateRelevanceScore(comment, lineContent) ==
    LET commentKeywords == extractKeywords(comment)
        lineKeywords == extractKeywords(lineContent)
        matches == SelectSeq(commentKeywords, LAMBDA k : k \in Range(lineKeywords))
        commentLower == toLowerCase(comment)
        lineLower == toLowerCase(lineContent)
        isDecl == \E w \in DeclWords : includes(lineLower, w)
        idHit == \E id \in Range(extractIdentifiers(lineContent)) :
                    includes(commentLower, toLowerCase(id))
    IN Len(matches) * 2
       + (IF isDecl /\ idHit THEN 5 ELSE 0)
       - (IF Len(trim(lineContent)) < 3 THEN 2 ELSE 0)

\* The for loop of findBetterMatchingLine over the 0-based indices i..endLine.
\* best = [line, score, threw]; reading fileLines[i] past the end of the array
\* gives undefined, on which extractKeywords throws a TypeError.
RECURSIVE scanLines(_, _, _, _, _, _)
scanLines(comment, fileLines, originalLine, i, endLine, best) ==
    IF i > endLine THEN best
    ELSE IF i = originalLine - 1
         THEN scanLines(comment, fileLines, originalLine, i + 1, endLine, best)
    ELSE IF i + 1 > Len(fileLines) THEN [best EXCEPT !.threw = TRUE]
    ELSE LET score == calculateRelevanceScore(comment, fileLines[i + 1])
         IN scanLines(comment, fileLines, originalLine, i + 1, endLine,
                      IF score > best.score
                      THEN [line |-> i + 1, score |-> score, threw |-> FALSE]
                      ELSE best)

\* the 0-based indices the for loop of findBetterMatchingLine scores
scoredIndices(fileLines, originalLine, radius) ==
    (Max({0, originalLine - radius - 1})..Min({Len(fileLines), originalLine + radius - 1}))
        \ {originalLine - 1}

findBetterMatchingLine(comment, fileLines, originalLine, radius) ==
    IF originalLine < 1 \/ originalLine > Len(fileLines)
    THEN [line |-> Min({Max({1, originalLine}), Len(fileLines)}), score |-> 0,
          threw |-> FALSE]
    ELSE LET startLine == Max({0, originalLine - radius - 1})
             endLine == Min({Len(fileLines), originalLine + radius - 1})
         IN scanLines(comment, fileLines, originalLine, startLine, endLine,
                      [line |-> originalLine,
                       score |-> calculateRelevanceScore(comment, fileLines[originalLine]),
                       threw |-> FALSE])

(***************************************************************************)
(* The files of the pull request, as fileContentGetter returns them        *)
(* (content.split("\n")); files from the third on cannot be fetched and    *)
(* come back as the sentinel text of GitHubAPI.getContent.                 *)
(***************************************************************************)
LBrace == << "}" >>
LFoo == << "f","o","o","(",")" >>
LBar == << "b","a","r","(",")" >>
LDecl == << "l","e","t"," ","b","a","z" >>
LUnavailable ==
    << "[","F","i","l","e"," ","c","o","n","t","e","n","t"," ",
       "u","n","a","v","a","i","l","a","b","l","e","]" >>

LongFile ==
    << LFoo, LBrace, LBar, LBrace, LBrace, LDecl,
       LBrace, LBrace, LBrace, LBrace, LBrace, LBrace >>
ShortFile == << LBar, LFoo >>

FileContent(f) ==
    IF f = 1 THEN LongFile
    ELSE IF f = 2 THEN ShortFile
    ELSE << LUnavailable >>

DFoo == << "f","o","o" >>
DBaz == << "B","a","z" >>
DZip == << "z","i","p" >>
DUnavailable == << "u","n","a","v","a","i","l","a","b","l","e" >>
DFooFoo == << "f","o","o"," ","F","o","o" >>
DFooBar == << "f","o","o"," ","b","a","r" >>
DTheBaz == << "t","h","e"," ","b","a","z"," ","i","s"," ","f","o","o" >>

\* a file long enough for a search of 10 lines either way
TallFile ==
    << LFoo, LBrace, LBar, LBrace, LDecl, LFoo, LBrace, LBrace, LBar, LBrace, LBrace, LBrace,
       LBrace, LBrace, LBrace, LBrace, LBrace, LBrace, LBrace, LBrace, LBrace, LBrace,
       LBrace, LDecl >>

\* file.status as getFilesBetweenCommits reports it: the files that cannot
\* be fetched at the head commit are the removed ones
FileStatus(f) ==
    IF f = 1 THEN "modified"
    ELSE IF f = 2 THEN "added"
    ELSE "removed"

\* A path that is not in the filtered file list; files 1..nFiles are the list
OtherFile == 0

(***************************************************************************)
(* What the analysis loop of AnthropicAgent.doReview does with one issue   *)
(***************************************************************************)
NoPost(k) == [kind |-> k, startLine |-> 0, endLine |-> 0]

\* the bounds check of the issue loop without its lineEnd > totalLines test
invalidLinesNoEnd(issue, totalLines) ==
    issue.lineStart < 1 \/ issue.lineStart > issue.lineEnd

\* the bounds check of the issue loop
invalidLines(issue, totalLines) ==
    issue.lineStart < 1 \/ issue.lineEnd > totalLines
    \/ issue.lineStart > issue.lineEnd

IssueOutcome(issue, fileLines) ==
    LET totalLines == Len(fileLines)
    IN IF invalidLines(issue, totalLines)
       THEN NoPost("invalid")
       ELSE LET \* fileLines[issue.lineStart - 1]?.trim() || ""
                targetLineContent ==
                    IF issue.lineStart \in DOMAIN fileLines
                    THEN trim(fileLines[issue.lineStart])
                    ELSE << >>
                contextLines ==
                    joinLines(slice(fileLines,
                                    Max({0, issue.lineStart - contextWindow}),
                                    Min({totalLines, issue.lineEnd + contextWindow})))
            IN IF isCommentRelevantToLineContent(issue.description,
                                                 targetLineContent, contextLines)
               THEN [kind |-> "post", startLine |-> issue.lineStart,
                     endLine |-> issue.lineEnd]
               ELSE LET better == findBetterMatchingLine(issue.description, fileLines,
                                                         issue.lineStart, searchRadius)
                    IN IF better.threw THEN NoPost("threw")
                       ELSE IF better.line # issue.lineStart
                            THEN [kind |-> "post", startLine |-> better.line,
                                  endLine |-> better.line]
                       ELSE NoPost("discard")

(***************************************************************************)
(* Summaries                                                               *)
(***************************************************************************)
DigitSeq == << "0","1","2","3","4","5","6","7","8","9" >>

\* a number inside a template literal
RECURSIVE toString(_)
toString(n) ==
    IF n < 10 THEN << DigitSeq[n + 1] >>
    ELSE toString(n \div 10) \o << DigitSeq[(n % 10) + 1] >>

\* "# Code Review Summary\n\n"
SummaryHeader ==
    << "#"," ","C","o","d","e"," ","R","e","v","i","e","w"," ",
       "S","u","m","m","a","r","y","\n","\n" >>

\* "\n\n## Details"; the sections after it are built from the other fields of
\* the aggregation result
DetailsHeader == << "\n","\n","#","#"," ","D","e","t","a","i","l","s" >>

structuredSummary(summary) == SummaryHeader \o summary \o DetailsHeader

\* the fallback with the posted comments counted as files and the files as issues
fallbackSummarySwapped(n, m) ==
    SummaryHeader
    \o << "R","e","v","i","e","w","e","d"," " >> \o toString(m)
    \o << " ","f","i","l","e","s"," ","a","n","d"," ","f","o","u","n","d"," " >>
    \o toString(n)
    \o << " ","i","s","s","u","e","s","." >>

\* `# Code Review Summary\n\nReviewed ${n} files and found ${m} issues.`
fallbackSummary(n, m) ==
    SummaryHeader
    \o << "R","e","v","i","e","w","e","d"," " >> \o toString(n)
    \o << " ","f","i","l","e","s"," ","a","n","d"," ","f","o","u","n","d"," " >>
    \o toString(m)
    \o << " ","i","s","s","u","e","s","." >>

\* `Code review completed. Reviewed ${n} files with ${m} comments.`
completedSummary(n, m) ==
    << "C","o","d","e"," ","r","e","v","i","e","w"," ",
       "c","o","m","p","l","e","t","e","d","."," ",
       "R","e","v","i","e","w","e","d"," " >> \o toString(n)
    \o << " ","f","i","l","e","s"," ","w","i","t","h"," " >> \o toString(m)
    \o << " ","c","o","m","m","e","n","t","s","." >>

\* if (!reviewSummary) reviewSummary = `Code review completed. ...`
finalSummary(reviewSummary, n, m) ==
    IF reviewSummary = << >> THEN completedSummary(n, m) ELSE reviewSummary

(***************************************************************************)
(* Errors and inputs                                                       *)
(***************************************************************************)
MsgRateLimit == << "r","a","t","e"," ","l","i","m","i","t" >>
MsgQuota == << "q","u","o","t","a" >>
MsgTimeout == << "t","i","m","e","o","u","t" >>
ErrorMessages == {MsgRateLimit, MsgQuota \o << " " >> \o MsgTimeout, MsgTimeout}

isRateLimited(errorMessage) ==
    includes(errorMessage, MsgRateLimit) \/ includes(errorMessage, MsgQuota)

FlagTrue == << "t","r","u","e" >>
FlagMixed == << "T","r","u","e" >>
FlagFalse == << "f","a","l","s","e" >>
FlagInputs == {FlagTrue, FlagMixed, FlagFalse, << >>}

\* InputProcessor.create: rawInputs.fail_action_if_review_failed.toLowerCase() === "true"
createFailAction(raw) == toLowerCase(raw) = FlagTrue

\* main: core.getInput("fail_action_if_review_failed") === "true"
mainFailAction(raw) == raw = FlagTrue

(***************************************************************************)
(* Baseline resolver of InputProcessor.processChangedFiles                 *)
(***************************************************************************)
\* the search without reverse(): the first comment that starts with the prefix
firstReviewComment(cs) ==
    LET hits == {i \in 1..Len(cs) : startsWith(cs[i].body, AI_REVIEW_COMMENT_PREFIX)}
    IN IF hits = {} THEN 0 ELSE Min(hits)

\* the search with includes() in place of startsWith()
lastReviewCommentIncludes(cs) ==
    LET hits == {i \in 1..Len(cs) : includes(cs[i].body, AI_REVIEW_COMMENT_PREFIX)}
    IN IF hits = {} THEN 0 ELSE Max(hits)

\* [...comments].reverse().find(c => c?.body?.startsWith(PREFIX)): the index
\* of the last comment in list order whose body starts with the prefix, or 0
lastReviewComment(cs) ==
    LET hits == {i \in 1..Len(cs) : startsWith(cs[i].body, AI_REVIEW_COMMENT_PREFIX)}
    IN IF hits = {} THEN 0 ELSE Max(hits)

newBaseCommit(body) ==
    trim(replaceFirst(splitFirst(body, SUMMARY_SEPARATOR), AI_REVIEW_COMMENT_PREFIX))

resolveBaseCommit(cs, prBase) ==
    LET i == lastReviewComment(cs)
    IN IF i = 0 \/ cs[i].body = << >> THEN prBase
       ELSE LET nb == newBaseCommit(cs[i].body)
            IN IF nb # << >> /\ trim(nb) # << >>
               THEN splitFirst(nb, << " " >>)
               ELSE prBase

(***************************************************************************)
(* Inputs of the model                                                     *)
(***************************************************************************)
SeqsUpTo(S, n) == UNION {[1..k -> S] : k \in 0..n}

Issue(s, e, d) == [lineStart |-> s, lineEnd |-> e, description |-> d]

IssueChoices ==
    { Issue(1, 1, DFoo), Issue(1, 1, DBaz), Issue(1, 3, DFoo), Issue(1, 1, DZip),
      Issue(13, 13, DFoo), Issue(1, 13, DFoo), Issue(3, 1, DFoo),
      Issue(12, 12, DZip) }

AddCommentOn(f, s, e, side) ==
    [toolName |-> "add_review_comment", file_name |-> f, start_line_number |-> s,
     end_line_number |-> e, side |-> side, brief_summary |-> << >>]
\* side: z.enum([LEFT, RIGHT]).default(RIGHT)
AddComment(f, s, e) == AddCommentOn(f, s, e, "RIGHT")
MarkAsDone(t) ==
    [toolName |-> "mark_as_done", file_name |-> OtherFile, start_line_number |-> 0,
     end_line_number |-> 0, side |-> "NONE", brief_summary |-> t]

ToolChoices ==
    { AddComment(1, 1, 1), AddComment(OtherFile, 1, 1), AddComment(1, 13, 13),
      AddComment(1, 3, 1), AddCommentOn(1, 1, 1, "LEFT"),
      MarkAsDone(TextOk), MarkAsDone(TextBlank) }

TextChoices == {TextOk, TextBlank, TextEmpty}

TextLgtm == << "L","G","T","M" >>

\* a summary comment as main writes it; sha is the head commit it records
MarkerComment(sha, summary) == [body |-> commentBody(sha, summary), sha |-> sha]

CommentChoices ==
    { MarkerComment(ShaA, TextOk), MarkerComment(ShaB, TextOk),
      MarkerComment(ShaA, SUMMARY_SEPARATOR \o AI_REVIEW_COMMENT_PREFIX \o ShaB),
      [body |-> TextLgtm, sha |-> << >>],
      [body |-> TextLgtm \o << " " >> \o commentBody(ShaB, TextOk), sha |-> << >>],
      [body |-> AI_REVIEW_COMMENT_PREFIX \o SUMMARY_SEPARATOR \o TextOk, sha |-> << >>],
      [body |-> AI_REVIEW_COMMENT_PREFIX \o TextLgtm, sha |-> << >>] }

\* contLeft = Unlimited: the model may answer analysisComplete = false forever
Unlimited == 0 - 1

\* the issue lists a step may return when k more issues are allowed
IssueLists == [k \in 0..MaxIssues |-> SeqsUpTo(IssueChoices, k)]

\* issues of one or two lines anywhere in a file of up to MaxLine lines
PlacementIssues ==
    { Issue(r[1], r[2], d) :
        r \in { q \in (1..MaxLine) \X (1..MaxLine) : q[1] <= q[2] /\ q[2] <= q[1] + 1 },
        d \in {DFoo, DBaz, DZip, DUnavailable} }

\* what the issue loop does with each issue on each file
issueOutcomes ==
    [f \in 1..Max({MaxFiles, BudgetFiles}), i \in IssueChoices \cup PlacementIssues |->
        IssueOutcome(i, FileContent(f))]

(***************************************************************************)
(* State                                                                   *)
(***************************************************************************)
VARIABLES
    pc,               \* position of main / doReview
    provider,         \* "anthropic" or "google"
    nFiles,           \* length of the filtered file list
    comments,         \* existing PR comments, in list order
    headCommit,       \* InputProcessor.headCommit, the head SHA of the pull request
    baseCommit,       \* InputProcessor.baseCommit
    retries,          \* loop variable of the retry loop
    reviewSummary, reviewedFiles, commentsMade,
    fileIdx,          \* position of the file loop
    stepCount, totalSteps, analysisComplete,
    pendingIssues,    \* issues of the current step not yet handled
    toolCalls,        \* tool calls of the current generateText call
    pendingTools,     \* tool calls not yet executed
    errorMessage,     \* message of the error caught by the retry loop
    thrown,           \* what main's try block threw: "none", "setup", "review", "summary", "post"
    summaryPosts,     \* bodies handed to createPRComment
    flagInput,        \* raw fail_action_if_review_failed as read in main's catch
    failed, warned,   \* core.setFailed / core.warning called by main's catch
    attempts,         \* attempts of the pipeline started
    backoffs,         \* exponential backoff waits made
    cooldowns,        \* 10 s rate-limit waits made
    finalWaits,       \* waits made after the failure of the last attempt
    waits,            \* the waits made by the catch block, in the order they were made
    delays,           \* the backoff delays waited, in ms, in the order they were waited
    scenario,         \* outcomes of the first provider calls: "0","1","2" throws so far, "hit" = throw, throw, success, "miss"
    summaryThrew,     \* the aggregation request threw
    lastStepThrew,    \* the analysis step made last ended in the step's catch block
    anyError,         \* an analysis step of this run ended in the step's catch block
    reviewStep,       \* the object the analysis step made last got from generateObject
    auxContext,       \* what the steps of the current file appended to initialContext
    actionsLeft,      \* nextAction requests the model may still make
    nHanded,          \* line comments handed to createReviewComment
    nAccepted,        \* line comments createReviewComment accepted
    lastComment,      \* the line comment handed last
    outcomes,         \* what the issue loop did with each issue, in order
    lastSide,         \* the side argument of the line comment handed last
    lastIssue,        \* the issue the issue loop handled last
    watch,            \* the file whose step requests are counted (0: none)
    watchReqs,        \* analysis-step requests made for file watch
    issuesLeft,       \* issues the model may still return
    contLeft,         \* analysisComplete = false answers the model may still give
    toolCap,          \* tool calls the model makes at most in one answer
    cacheLock,        \* AIAgent.cacheLock
    fileCache,        \* AIAgent.fileCache: path -> content, for the cached paths
    cpc,              \* position of each getFileContentWithCache call
    req,              \* arguments of each call
    expired,          \* Date.now() - start > timeout in the call's acquireLock
    fetched,          \* content the call's upstream fetch returned
    result,           \* value returned, or message of the error thrown, by each call
    fetches,          \* upstream fetches made for each path
    lockOwner,        \* the call that set cacheLock (0: flag clear)
    afterDone,        \* a call for the same path had returned when the call began
    used,             \* the full content each call sliced its result from
    cachedEver,       \* every content ever stored in fileCache, by path
    changedFiles,     \* files between base and head, as getFilesBetweenCommits returns them
    rules,            \* the four raw rule inputs
    filteredDiffs,    \* InputProcessor.filteredDiffs
    refiltered,       \* the filter applied to filteredDiffs
    hostPages,        \* the pages of comments the host has, in page order
    allItems,         \* getAllPaginatedItems.allItems
    page,             \* getAllPaginatedItems.page
    ppc,              \* position of getAllPaginatedItems: "idle", "request", "returned", "threw"
    callArgs,         \* arguments of the calls of a helper function under study
    callResults,      \* what each of these calls returned, in call order
    runs,             \* invocations of main on the pull request that have ended
    prevBase,         \* the base commit the invocation before resolved (empty: none)
    prevPosted        \* the invocation before posted its summary comment

envVars == << provider, nFiles, comments, headCommit, watch >>
reviewVars == << retries, reviewSummary, reviewedFiles, commentsMade >>
fileVars == << fileIdx, stepCount, totalSteps, analysisComplete, pendingIssues >>
googleVars == << toolCalls, pendingTools, errorMessage >>
mainVars == << thrown, summaryPosts, flagInput, failed, warned >>
retryGhost == << attempts, backoffs, cooldowns, finalWaits, waits, delays >>
contextVars == << reviewStep, auxContext, actionsLeft >>
llmGhost == << scenario, summaryThrew, lastStepThrew, anyError, contextVars >>
gatewayGhost == << nHanded, nAccepted, lastComment, outcomes, lastSide, lastIssue >>
budgetVars == << watchReqs, issuesLeft, contLeft, toolCap >>

cacheVars == << cacheLock, fileCache, cpc, req, expired, fetched, result, fetches,
               lockOwner, afterDone, used, cachedEver >>

pageVars == << hostPages, allItems, page, ppc >>

helperVars == << callArgs, callResults >>

runVars == << runs, prevBase, prevPosted >>

filterVars == << changedFiles, rules, filteredDiffs, refiltered, pageVars, helperVars,
                runVars >>

reviewState == << pc, baseCommit, envVars, reviewVars, fileVars, googleVars, mainVars,
                  retryGhost, llmGhost, gatewayGhost, budgetVars, filterVars >>

vars == << reviewState, cacheVars >>

\* reviewStep.nextAction: the action and whether the parameter that names
\* its target (path_to_file, directory_path) is a non-empty string
NoAction == [action |-> "none", hasTarget |-> FALSE]

ActionChoices ==
    {NoAction} \cup
    [action : {"get_file_content", "explore_project", "add_review_comment", "mark_as_done"},
     hasTarget : BOOLEAN]

\* no object received
NoStep == [analysisComplete |-> FALSE, nextAction |-> NoAction]

NoComment == [path |-> OtherFile, startLine |-> 0, endLine |-> 0]
NoIssue == Issue(0, 0, << >>)

(***************************************************************************)
(* AIAgent.getFileContentWithCache: the file content cache and its lock    *)
(***************************************************************************)
NCallers == 3

\* const span = 20: context lines before and after
span == 20

Callers == 1..NCallers

PathA == << "a",".","t","s" >>
PathB == << "b",".","t","s" >>
Paths == {PathA, PathB}

\* a file of 24 one-letter lines
LetterFile == joinLines([i \in 1..24 |-> << LowerChars[i] >>])

\* what fileContentGetter may resolve to for a path
UpstreamContents(p) ==
    IF p = PathA THEN {LetterFile, LUnavailable} ELSE {joinLines(LongFile)}

\* arguments of the get_file_content tool (line numbers are integers >= 1)
Request(p, s, e) == [path |-> p, startLine |-> s, endLine |-> e]
RequestChoices == {Request(PathA, 1, 1), Request(PathA, 23, 24), Request(PathB, 5, 2)}
NoRequest == Request(<< >>, 0, 0)

\* content.split("\n")
RECURSIVE splitLines(_)
splitLines(s) ==
    LET i == indexOf(s, << "\n" >>)
    IN IF i = 0 THEN << s >>
       ELSE << SubSeq(s, 1, i - 1) >> \o splitLines(SubSeq(s, i + 1, Len(s)))

\* the slice without the context lines
selectedLinesNoSpan(content, startLineNumber, endLineNumber) ==
    LET lines == splitLines(content)
    IN slice(lines, Max({0, startLineNumber - 1}), Min({Len(lines), endLineNumber}))

\* lines.slice(startIndex, endIndex)
selectedLines(content, startLineNumber, endLineNumber) ==
    LET lines == splitLines(content)
        startIndex == Max({0, startLineNumber - 1 - span})
        endIndex == Min({Len(lines), endLineNumber + span})
    IN slice(lines, startIndex, endIndex)

\* the character U+0060 (grave accent), written as a token
Grave == "GRAVE"
Fence == << Grave, Grave, Grave >>

\* the returned template: three backticks, the path, a line feed, the selected
\* lines joined by line feeds, a line feed, three backticks
fenced(pathToFile, lines) ==
    Fence \o pathToFile \o << "\n" >> \o joinLines(lines) \o << "\n" >> \o Fence

cacheResult(r, content) ==
    fenced(r.path, selectedLines(content, r.startLine, r.endLine))

\* what a call returns for each request and each content, tabulated
cacheResults ==
    [r \in RequestChoices, content \in UNION {UpstreamContents(p) : p \in Paths} |->
        cacheResult(r, content)]

MsgLockTimeout ==
    << "T","i","m","e","o","u","t"," ","w","h","i","l","e"," ","w","a","i","t",
           "i","n","g"," ","f","o","r"," ","c","a","c","h","e"," ","l","o","c",
           "k" >>
MsgUpstream == << "N","o","t"," ","F","o","u","n","d" >>
ErrorPrefix ==
    << "E","r","r","o","r"," ","g","e","t","t","i","n","g"," ","f","i","l","e",
           " ","c","o","n","t","e","n","t",":"," " >>

\* new Error(`Error getting file content: ${error.message}`)
cacheError(message) == ErrorPrefix \o message

\* releaseLock that leaves the flag as it is
releaseLockNoop(lock) == lock

\* releaseLock: this.cacheLock = false
releaseLock(lock) == FALSE

\* fileCache.has / fileCache.set
cacheHas(cache, p) == p \in DOMAIN cache
cacheSet(cache, p, content) ==
    [q \in DOMAIN cache \cup {p} |-> IF q = p THEN content ELSE cache[q]]

\* no getFileContentWithCache call was made yet
InitCache ==
    /\ cacheLock = FALSE
    /\ fileCache = << >>
    /\ cpc = [c \in Callers |-> "idle"]
    /\ req = [c \in Callers |-> NoRequest]
    /\ expired = [c \in Callers |-> FALSE]
    /\ fetched = [c \in Callers |-> << >>]
    /\ result = [c \in Callers |-> << >>]
    /\ fetches = [p \in Paths |-> 0]
    /\ lockOwner = 0
    /\ afterDone = [c \in Callers |-> FALSE]
    /\ used = [c \in Callers |-> << >>]
    /\ cachedEver = [p \in Paths |-> {}]

(***************************************************************************)
(* InputProcessor.getFilteredChangedFiles                                  *)
(***************************************************************************)
MaxChanged == 2

BackSlash == "\\"

\* s.replace(/\\/g, "/")
replaceBackslashes(s) == [i \in 1..Len(s) |-> IF s[i] = BackSlash THEN "/" ELSE s[i]]

\* s.split(sep) for a one-character separator
RECURSIVE splitBy(_, _)
splitBy(s, sep) ==
    LET i == indexOf(s, << sep >>)
    IN IF i = 0 THEN << s >>
       ELSE << SubSeq(s, 1, i - 1) >> \o splitBy(SubSeq(s, i + 1, Len(s)), sep)

\* the map callback of stringToArray
normalizeToken(item) ==
    LET normalized == replaceBackslashes(trim(item))
    IN IF startsWith(normalized, << "." >>) THEN normalized
       ELSE IF endsWith(normalized, << "/" >>) THEN normalized
       ELSE normalized \o << "/" >>

stringToArray(inputString) ==
    IF inputString = << >> THEN << >>
    ELSE LET items == splitBy(inputString, ",")
             mapped == [i \in 1..Len(items) |-> normalizeToken(items[i])]
         IN SelectSeq(mapped, LAMBDA x : x # << >>)

Rules(ie, ee, ip, ep) ==
    [includeExtensions |-> ie, excludeExtensions |-> ee,
     includePaths |-> ip, excludePaths |-> ep]

\* an include rule that overrides the exclude rules
isFileToReviewIncludeWins(filename, r) ==
    LET normalizedFilename == replaceBackslashes(filename)
        includeExtensionsArray == stringToArray(r.includeExtensions)
        includePathsArray == stringToArray(r.includePaths)
    IN /\ includeExtensionsArray = << >>
          \/ \E ext \in Range(includeExtensionsArray) : endsWith(normalizedFilename, ext)
       /\ includePathsArray = << >>
          \/ \E path \in Range(includePathsArray) : startsWith(normalizedFilename, path)

isFileToReview(filename, r) ==
    LET normalizedFilename == replaceBackslashes(filename)
        includeExtensionsArray == stringToArray(r.includeExtensions)
        excludeExtensionsArray == stringToArray(r.excludeExtensions)
        includePathsArray == stringToArray(r.includePaths)
        excludePathsArray == stringToArray(r.excludePaths)
        hasValidExtension ==
            \/ Len(includeExtensionsArray) = 0
            \/ \E ext \in Range(includeExtensionsArray) : endsWith(normalizedFilename, ext)
        hasExcludedExtension ==
            /\ Len(excludeExtensionsArray) > 0
            /\ \E ext \in Range(excludeExtensionsArray) : endsWith(normalizedFilename, ext)
        isInIncludedPath ==
            \/ Len(includePathsArray) = 0
            \/ \E path \in Range(includePathsArray) : startsWith(normalizedFilename, path)
        isInExcludedPath ==
            /\ Len(excludePathsArray) > 0
            /\ \E path \in Range(excludePathsArray) : startsWith(normalizedFilename, path)
    IN hasValidExtension /\ ~hasExcludedExtension /\ isInIncludedPath /\ ~isInExcludedPath

\* a filter that returns the records with the filename normalized
getFilteredNormalized(files, r) ==
    LET kept == SelectSeq(files,
                    LAMBDA file : isFileToReview(replaceBackslashes(file.filename), r))
    IN [i \in 1..Len(kept) |->
           [kept[i] EXCEPT !.filename = replaceBackslashes(kept[i].filename)]]

getFilteredChangedFiles(files, r) ==
    SelectSeq(files, LAMBDA file : isFileToReview(replaceBackslashes(file.filename), r))

ChangedFile(name, status) == [filename |-> name, status |-> status]

FileChoices ==
    { ChangedFile(<< "s","r","c","/","a",".","t","s" >>, "modified"),
      ChangedFile(<< "s","r","c","f","o","o","/","a",".","t","s" >>, "added"),
      ChangedFile(<< "s","r","c",BackSlash,"b",".","j","s" >>, "modified"),
      ChangedFile(<< "d","o","c","s","/","r",".","m","d" >>, "modified"),
      ChangedFile(<< "a",".","t","s" >>, "added") }

RuleChoices ==
    { << >>,
      << ".","t","s" >>,
      << "s","r","c" >>,
      << ".","j","s",","," ",".","t","s" >>,
      << "d","o","c","s","/",",","s","r","c",BackSlash >> }

\* no file list was fetched or filtered yet
\* no listing of comments under way
InitPaging ==
    /\ hostPages = << >>
    /\ allItems = << >>
    /\ page = 1
    /\ ppc = "idle"

\* the first invocation of main on the pull request
InitRuns == runs = 0 /\ prevBase = << >> /\ prevPosted = FALSE

InitFilterInputs ==
    /\ InitRuns
    /\ changedFiles = << >>
    /\ rules = Rules(<< >>, << >>, << >>, << >>)
    /\ filteredDiffs = << >>
    /\ refiltered = << >>

\* no helper function called on its own
InitHelpers == callArgs = << >> /\ callResults = << >>

InitFilter == InitFilterInputs /\ InitPaging /\ InitHelpers

\* the file loop of doReview before the first attempt
InitFileLoop ==
    /\ reviewedFiles = {}
    /\ fileIdx = 0
    /\ stepCount = 0
    /\ totalSteps = 0
    /\ analysisComplete = FALSE
    /\ pendingIssues = << >>
    /\ attempts = 0
    /\ scenario = "0"

\* the other locals of doReview and of main before anything ran
InitOther ==
    /\ InitCache
    /\ reviewStep = NoStep
    /\ auxContext = << >>
    /\ retries = 0
    /\ commentsMade = 0
    /\ toolCalls = << >>
    /\ pendingTools = << >>
    /\ errorMessage = << >>
    /\ thrown = "none"
    /\ summaryPosts = << >>
    /\ flagInput = << >>
    /\ failed = FALSE
    /\ warned = FALSE
    /\ backoffs = 0
    /\ cooldowns = 0
    /\ finalWaits = 0
    /\ waits = << >>
    /\ delays = << >>
    /\ summaryThrew = FALSE
    /\ lastStepThrew = FALSE
    /\ anyError = FALSE
    /\ nHanded = 0
    /\ nAccepted = 0
    /\ lastComment = NoComment
    /\ outcomes = << >>
    /\ lastSide = "NONE"
    /\ lastIssue = NoIssue
    /\ watchReqs = 0

\* the locals of doReview and of main before anything ran
InitRest == InitFileLoop /\ InitOther

InitLocals == reviewSummary = << >> /\ InitRest /\ InitFilter

\* a whole run of main on a pull request without earlier comments
Init ==
    /\ pc = "start"
    /\ provider \in {"anthropic", "google"}
    /\ nFiles \in 0..MaxFiles
    /\ comments = << >>
    /\ headCommit = HeadSha
    /\ baseCommit = << >>
    /\ watch = 0
    /\ issuesLeft = MaxIssues
    /\ contLeft = MaxContinues
    /\ actionsLeft = 0
    /\ toolCap = MaxToolCalls
    /\ InitLocals

\* AnthropicAgent.doReview on BudgetFiles files, with a model that returns no
\* issues and may go on answering analysisComplete = false
InitSteps ==
    /\ pc = "attempt"
    /\ provider = "anthropic"
    /\ nFiles = BudgetFiles
    /\ comments = << >>
    /\ headCommit = HeadSha
    /\ baseCommit = PrBaseSha
    /\ watch \in 1..BudgetFiles
    /\ issuesLeft = 0
    /\ contLeft = Unlimited
    /\ actionsLeft = 0
    /\ toolCap = MaxToolCalls
    /\ InitLocals

\* processInputs on a pull request with up to MaxComments earlier comments
InitBaseline ==
    /\ pc = "start"
    /\ provider \in {"anthropic", "google"}
    /\ nFiles \in 0..1
    /\ comments \in SeqsUpTo(CommentChoices, MaxComments)
    /\ headCommit = HeadSha
    /\ baseCommit = << >>
    /\ watch = 0
    /\ issuesLeft = MaxIssues
    /\ contLeft = MaxContinues
    /\ actionsLeft = 0
    /\ toolCap = MaxToolCalls
    /\ InitLocals

\* head SHAs (no white space) and summaries returned by doReview
ShaChoices == {ShaA, ShaB, HeadSha, PrBaseSha}
SummaryChoices ==
    { TextOk, TextBlank, << " " >> \o ShaB,
      SUMMARY_SEPARATOR \o AI_REVIEW_COMMENT_PREFIX \o ShaB,
      commentBody(ShaB, TextOk), fallbackSummary(1, 0) }

\* main at the moment doReview returned a summary, on a pull request with up
\* to MaxEarlier earlier comments
InitRoundTrip ==
    /\ pc = "returned"
    /\ provider \in {"anthropic", "google"}
    /\ nFiles = 1
    /\ comments \in SeqsUpTo(CommentChoices, MaxEarlier)
    /\ headCommit \in ShaChoices
    /\ baseCommit = PrBaseSha
    /\ watch = 0
    /\ issuesLeft = MaxIssues
    /\ contLeft = MaxContinues
    /\ actionsLeft = 0
    /\ toolCap = MaxToolCalls
    /\ reviewSummary \in SummaryChoices
    /\ InitRest
    /\ InitFilter

(***************************************************************************)
(* Ghost bookkeeping                                                       *)
(***************************************************************************)
\* the scenario after one more provider call that threw or succeeded
Observe(s, threw) ==
    IF s = "0" THEN (IF threw THEN "1" ELSE "miss")
    ELSE IF s = "1" THEN (IF threw THEN "2" ELSE "miss")
    ELSE IF s = "2" THEN (IF threw THEN "miss" ELSE "hit")
    ELSE s

Handed(f, s, e, side, accepted) ==
    /\ lastSide' = side
    /\ nHanded' = nHanded + 1
    /\ nAccepted' = IF accepted THEN nAccepted + 1 ELSE nAccepted
    /\ lastComment' = [path |-> f, startLine |-> s, endLine |-> e]

(***************************************************************************)
(* InputProcessor.processInputs, called by main                            *)
(***************************************************************************)
\* a main that starts the review whatever the filter left
alwaysReview(n) == FALSE

\* main: if (inputProcessor.getFilteredDiffs.length === 0) return
noFilesToReview(n) == n = 0

ProcessInputs ==
    /\ pc = "start"
    /\ \/ \* InputProcessor.create, setupGitHubAPI or processChangedFiles throws
          /\ thrown' = "setup"
          /\ pc' = "main_catch"
          /\ UNCHANGED baseCommit
       \/ /\ baseCommit' = resolveBaseCommit(comments, PrBaseSha)
          /\ pc' = IF noFilesToReview(nFiles) THEN "done" ELSE "attempt"
          /\ UNCHANGED thrown
    /\ UNCHANGED << cacheVars, filterVars, envVars, reviewVars, fileVars, googleVars, summaryPosts,
                    flagInput, failed, warned, retryGhost, llmGhost, gatewayGhost,
                    budgetVars >>

(***************************************************************************)
(* AnthropicAgent.doReview                                                 *)
(***************************************************************************)
\* a file loop that goes on where the attempt before had stopped
loopResume(current) == current

\* for (const file of simpleChangedFiles): every attempt starts at the first file
loopStart(current) == 1

\* top of the retry loop: the project structure is fetched inside its own
\* try/catch, then the file loop starts
AttemptStart ==
    /\ pc = "attempt"
    /\ provider = "anthropic"
    /\ attempts' = attempts + 1
    /\ fileIdx' = loopStart(fileIdx)
    /\ pc' = "file"
    /\ UNCHANGED << cacheVars, filterVars, baseCommit, envVars, reviewVars, stepCount, totalSteps,
                    analysisComplete, pendingIssues, googleVars, mainVars, backoffs,
                    cooldowns, finalWaits, waits, delays, llmGhost, gatewayGhost, budgetVars >>

\* a file loop that records nothing
addNothing(files, filename) == files

\* reviewedFiles.add(file.filename)
addReviewed(files, filename) == files \cup {filename}

\* head of the file loop: record the file, check the global budget, fetch
FileNext ==
    /\ pc = "file"
    /\ IF fileIdx > nFiles
       THEN /\ pc' = "summary"
            /\ UNCHANGED << reviewedFiles, stepCount, analysisComplete, auxContext >>
       ELSE /\ reviewedFiles' = addReviewed(reviewedFiles, fileIdx)
            /\ IF totalSteps >= MAX_TOTAL_STEPS
               THEN /\ pc' = "summary"
                    /\ UNCHANGED << stepCount, analysisComplete, auxContext >>
               ELSE /\ analysisComplete' = FALSE
                    /\ stepCount' = 0
                    /\ auxContext' = << >>
                    /\ pc' = "step"
    /\ UNCHANGED << cacheVars, filterVars, baseCommit, envVars, retries, reviewSummary, commentsMade,
                    fileIdx, totalSteps, pendingIssues, googleVars, mainVars,
                    retryGhost, scenario, summaryThrew, lastStepThrew, anyError,
                    reviewStep, actionsLeft, gatewayGhost, budgetVars >>

\* the while condition with <= for <
whileConditionOffByOne(complete, steps) == ~complete /\ steps <= maxSteps

\* while (!analysisComplete && stepCount < maxSteps)
whileCondition(complete, steps) == ~complete /\ steps < maxSteps

\* a step's catch block that leaves analysisComplete as it is
continueOnError == FALSE

\* the step's catch block: analysisComplete = true
stopOnError == TRUE

\* one iteration of the while loop up to the end of generateObject
\* a step that fetches what nextAction names even when the analysis is complete
actionFetchesWhenComplete(complete, action) ==
    \/ action.action = "get_file_content" /\ action.hasTarget
    \/ action.action = "explore_project" /\ action.hasTarget

\* the step fetches auxiliary context: !analysisComplete && reviewStep.nextAction
\* and one of the two branches that follow
actionFetches(complete, action) ==
    /\ ~complete
    /\ action # NoAction
    /\ \/ action.action = "get_file_content" /\ action.hasTarget
       \/ action.action = "explore_project" /\ action.hasTarget

AnalysisStep ==
    /\ pc = "step"
    /\ whileCondition(analysisComplete, stepCount)
    /\ stepCount' = stepCount + 1
    /\ totalSteps' = totalSteps + 1
    /\ watchReqs' = IF fileIdx = watch THEN watchReqs + 1 ELSE watchReqs
    /\ \/ \* generateObject throws (provider error, or an object that fails
          \* ReviewStepSchema): the step's catch stops the file
          /\ analysisComplete' = stopOnError
          /\ pendingIssues' = << >>
          /\ scenario' = Observe(scenario, TRUE)
          /\ lastStepThrew' = TRUE
          /\ anyError' = TRUE
          /\ pc' = "step"
          /\ reviewStep' = NoStep
          /\ UNCHANGED << issuesLeft, contLeft, auxContext, actionsLeft >>
       \/ \E done \in BOOLEAN :
          \E issues \in IssueLists[issuesLeft] :
          \E action \in IF actionsLeft > 0 THEN ActionChoices ELSE {NoAction} :
          \E fetchOk \in BOOLEAN :
             /\ done \/ contLeft # 0
             /\ analysisComplete' = done
             /\ reviewStep' = [analysisComplete |-> done, nextAction |-> action]
             /\ actionsLeft' = IF action = NoAction THEN actionsLeft ELSE actionsLeft - 1
             /\ auxContext' = IF actionFetches(done, action)
                              THEN Append(auxContext, [action |-> action.action, ok |-> fetchOk])
                              ELSE auxContext
             /\ pendingIssues' = issues
             /\ issuesLeft' = issuesLeft - Len(issues)
             /\ contLeft' = IF ~done /\ contLeft > 0 THEN contLeft - 1 ELSE contLeft
             /\ scenario' = Observe(scenario, FALSE)
             /\ lastStepThrew' = FALSE
             /\ UNCHANGED anyError
             /\ pc' = IF issues = << >> THEN "step" ELSE "issues"
    /\ UNCHANGED << cacheVars, filterVars, baseCommit, envVars, reviewVars, fileIdx, googleVars, mainVars,
                    retryGhost, summaryThrew, gatewayGhost, toolCap >>

\* an issue loop that takes the issues from the end
lastIssueFirst(issues) == Len(issues)

\* for (const issue of reviewStep.issues): the position of the issue taken next
nextIssue(issues) == 1

\* one iteration of the issue loop of the step
ProcessIssue ==
    /\ pc = "issues"
    /\ pendingIssues # << >>
    /\ LET o == issueOutcomes[fileIdx, pendingIssues[nextIssue(pendingIssues)]]
       IN IF o.kind = "post"
          THEN \E accepted \in BOOLEAN :
                  /\ Handed(fileIdx, o.startLine, o.endLine, "RIGHT", accepted)
                  /\ commentsMade' = IF accepted THEN commentsMade + 1 ELSE commentsMade
                  /\ outcomes' = Append(outcomes, IF accepted THEN "post" ELSE "rejected")
          ELSE /\ outcomes' = Append(outcomes, o.kind)
               /\ UNCHANGED << nHanded, nAccepted, lastComment, lastSide, commentsMade >>
    /\ lastIssue' = pendingIssues[nextIssue(pendingIssues)]
    /\ pendingIssues' = [i \in 1..(Len(pendingIssues) - 1) |->
                             IF i < nextIssue(pendingIssues)
                             THEN pendingIssues[i] ELSE pendingIssues[i + 1]]
    /\ pc' = IF Len(pendingIssues) = 1 THEN "step" ELSE "issues"
    /\ UNCHANGED << cacheVars, filterVars, baseCommit, envVars, retries, reviewSummary, reviewedFiles,
                    fileIdx, stepCount, totalSteps, analysisComplete, googleVars,
                    mainVars, retryGhost, llmGhost, budgetVars >>

\* the while loop ends: the file loop moves on to the next file
FileDone ==
    /\ pc = "step"
    /\ ~whileCondition(analysisComplete, stepCount)
    /\ fileIdx' = fileIdx + 1
    /\ pc' = "file"
    /\ UNCHANGED << cacheVars, filterVars, baseCommit, envVars, reviewVars, stepCount, totalSteps,
                    analysisComplete, pendingIssues, googleVars, mainVars,
                    retryGhost, llmGhost, gatewayGhost, budgetVars >>

\* step 3: the aggregation request, its fallback, break, and the return
Summarize ==
    /\ pc = "summary"
    /\ \/ /\ reviewSummary' =
                finalSummary(fallbackSummary(Cardinality(reviewedFiles), commentsMade),
                             Cardinality(reviewedFiles), commentsMade)
          /\ summaryThrew' = TRUE
          /\ scenario' = Observe(scenario, TRUE)
          /\ UNCHANGED << lastStepThrew, anyError, contextVars >>
       \/ \E t \in {TextOk, TextBlank} :
             /\ reviewSummary' =
                   finalSummary(structuredSummary(t),
                                Cardinality(reviewedFiles), commentsMade)
             /\ scenario' = Observe(scenario, FALSE)
             /\ UNCHANGED << summaryThrew, lastStepThrew, anyError, contextVars >>
    /\ pc' = "returned"
    /\ UNCHANGED << cacheVars, filterVars, baseCommit, envVars, retries, reviewedFiles, commentsMade,
                    fileVars, googleVars, mainVars, retryGhost, gatewayGhost,
                    budgetVars >>

(***************************************************************************)
(* GoogleAgent.doReview                                                    *)
(***************************************************************************)
\* top of the retry loop: generateText asks the model, which throws or
\* answers with tool calls
Generate ==
    /\ pc = "attempt"
    /\ provider = "google"
    /\ attempts' = attempts + 1
    /\ \/ \E msg \in ErrorMessages :
             /\ errorMessage' = msg
             /\ scenario' = Observe(scenario, TRUE)
             /\ pc' = "catch"
             /\ UNCHANGED << toolCalls, pendingTools >>
       \/ \E calls \in SeqsUpTo(ToolChoices, toolCap) :
             /\ toolCalls' = calls
             /\ pendingTools' = calls
             /\ scenario' = Observe(scenario, FALSE)
             /\ pc' = IF calls = << >> THEN "counting" ELSE "tools"
             /\ UNCHANGED errorMessage
    /\ UNCHANGED << cacheVars, filterVars, baseCommit, envVars, reviewVars, fileVars, mainVars, backoffs,
                    cooldowns, finalWaits, waits, delays, summaryThrew, lastStepThrew,
                    anyError, contextVars,
                    gatewayGhost, budgetVars >>

\* AIAgent.validateLineNumbers
validateLineNumbers(startLineNumber, endLineNumber) ==
    startLineNumber >= 1 /\ endLineNumber >= 1 /\ startLineNumber <= endLineNumber

\* the checks of InputProcessor.fileCommentator before createReviewComment
commentatorAccepts(filePath, startLineNumber, endLineNumber) ==
    ~(startLineNumber < 1 \/ endLineNumber < startLineNumber)

\* generateText executes one tool call: add_review_comment runs
\* AIAgent.addReviewComment, which turns every error into its return text
ExecuteTool ==
    /\ pc = "tools"
    /\ pendingTools # << >>
    /\ LET call == Head(pendingTools)
       IN IF /\ call.toolName = "add_review_comment"
             /\ validateLineNumbers(call.start_line_number, call.end_line_number)
             /\ commentatorAccepts(call.file_name, call.start_line_number,
                                   call.end_line_number)
          THEN \E accepted \in BOOLEAN :
                  /\ Handed(call.file_name, call.start_line_number,
                            call.end_line_number, call.side, accepted)
                  /\ UNCHANGED << outcomes, lastIssue >>
          ELSE UNCHANGED gatewayGhost
    /\ pendingTools' = Tail(pendingTools)
    /\ pc' = IF Tail(pendingTools) = << >> THEN "counting" ELSE "tools"
    /\ UNCHANGED << cacheVars, filterVars, baseCommit, envVars, reviewVars, fileVars, toolCalls,
                    errorMessage, mainVars, retryGhost, llmGhost, budgetVars >>

\* for (const call of toolCalls): the last mark_as_done gives the summary
RECURSIVE lastBriefSummary(_, _)
lastBriefSummary(calls, current) ==
    IF calls = << >> THEN current
    ELSE lastBriefSummary(Tail(calls),
                          IF Head(calls).toolName = "mark_as_done"
                          THEN Head(calls).brief_summary
                          ELSE current)

addCommentCalls(calls) ==
    {i \in 1..Len(calls) : calls[i].toolName = "add_review_comment"}

\* generateText returns: the counting loop, the text fallback, break, return
CountAndReturn ==
    /\ pc = "counting"
    /\ \E text \in TextChoices :
          LET made == commentsMade + Cardinality(addCommentCalls(toolCalls))
              files == reviewedFiles
                       \cup {toolCalls[i].file_name : i \in addCommentCalls(toolCalls)}
              fromTools == lastBriefSummary(toolCalls, reviewSummary)
              summary == IF fromTools = << >> THEN text ELSE fromTools
          IN /\ commentsMade' = made
             /\ reviewedFiles' = files
             /\ reviewSummary' = finalSummary(summary, Cardinality(files), made)
    /\ pc' = "returned"
    /\ UNCHANGED << cacheVars, filterVars, baseCommit, envVars, retries, fileVars, googleVars, mainVars,
                    retryGhost, llmGhost, gatewayGhost, budgetVars >>

(***************************************************************************)
(* The catch block of the retry loop (the same text in both agents)        *)
(***************************************************************************)
\* a catch block that makes the backoff wait before the 10 s wait
backoffFirst(rate, last) ==
    (IF last THEN << >> ELSE << "backoff" >>) \o (IF rate THEN << "cooldown" >> ELSE << >>)

\* the setTimeout waits of the catch block in program order: 10 s after a
\* rate-limit or quota message, then the backoff unless the error is rethrown
catchWaits(rate, last) ==
    (IF rate THEN << "cooldown" >> ELSE << >>) \o (IF last THEN << >> ELSE << "backoff" >>)

\* a retry loop whose catch block never gives up
neverLast(attempt) == FALSE

\* if (retries >= maxRetries - 1) throw error
isLastAttempt(attempt) == attempt >= maxRetries - 1

\* Math.random() * 1000, in ms
JitterChoices == {0, 500, 999}

\* a backoff without the exponential factor
backoffFlat(attempt, jitter) == initialBackoff + jitter

\* initialBackoff * 2 ** retries + Math.random() * 1000
backoff(attempt, jitter) == initialBackoff * 2 ^ attempt + jitter

RetryCatch ==
    /\ pc = "catch"
    /\ LET rate == isRateLimited(errorMessage)
           last == isLastAttempt(retries)
       IN /\ cooldowns' = IF rate THEN cooldowns + 1 ELSE cooldowns
          /\ waits' = waits \o catchWaits(rate, last)
          /\ IF last
             THEN \* throw error: the outer catch rethrows it to main
                  /\ finalWaits' = IF rate THEN finalWaits + 1 ELSE finalWaits
                  /\ thrown' = "review"
                  /\ pc' = "main_catch"
                  /\ UNCHANGED << backoffs, retries, delays >>
             ELSE /\ backoffs' = backoffs + 1
                  /\ \E jitter \in JitterChoices :
                        delays' = Append(delays, backoff(retries, jitter))
                  /\ retries' = retries + 1
                  /\ pc' = "attempt"
                  /\ UNCHANGED << finalWaits, thrown >>
    /\ UNCHANGED << cacheVars, filterVars, baseCommit, envVars, reviewSummary, reviewedFiles, commentsMade,
                    fileVars, googleVars, summaryPosts, flagInput, failed, warned,
                    attempts, llmGhost, gatewayGhost, budgetVars >>

(***************************************************************************)
(* main after doReview returned, and main's catch block                    *)
(***************************************************************************)
isValidSummary(s) == ~(s = << >> \/ trim(s) = << >>)

PostSummary ==
    /\ pc = "returned"
    /\ IF ~isValidSummary(reviewSummary)
       THEN /\ thrown' = "summary"
            /\ pc' = "main_catch"
            /\ UNCHANGED summaryPosts
       ELSE /\ summaryPosts' = Append(summaryPosts, commentBody(headCommit, reviewSummary))
            /\ \E accepted \in BOOLEAN :
                  IF accepted
                  THEN pc' = "done" /\ UNCHANGED thrown
                  ELSE pc' = "main_catch" /\ thrown' = "post"
    /\ UNCHANGED << cacheVars, filterVars, baseCommit, envVars, reviewVars, fileVars, googleVars, flagInput,
                    failed, warned, retryGhost, llmGhost, gatewayGhost, budgetVars >>

MainCatch ==
    /\ pc = "main_catch"
    /\ \E raw \in FlagInputs :
          /\ flagInput' = raw
          /\ failed' = mainFailAction(raw)
          /\ warned' = ~mainFailAction(raw)
    /\ pc' = "done"
    /\ UNCHANGED << cacheVars, filterVars, baseCommit, envVars, reviewVars, fileVars, googleVars, thrown,
                    summaryPosts, retryGhost, llmGhost, gatewayGhost, budgetVars >>

\* the next invocation of main on the same pull request: the summary comment
\* created by the run before is the last of the comments listPRComments
\* returns, and the head may have moved
NextRun ==
    /\ pc = "done"
    /\ thrown = "none"
    /\ summaryPosts # << >>
    /\ comments' = Append(comments, [body |-> summaryPosts[Len(summaryPosts)],
                                      sha |-> headCommit])
    /\ headCommit' \in ShaChoices
    /\ pc' = "start"
    /\ baseCommit' = << >>
    /\ reviewSummary' = << >>
    /\ summaryPosts' = << >>
    /\ UNCHANGED << cacheVars, filterVars, provider, nFiles, watch, retries, reviewedFiles, commentsMade,
                    fileVars, googleVars, thrown, flagInput, failed, warned,
                    retryGhost, llmGhost, gatewayGhost, budgetVars >>

(***************************************************************************)
(* AIAgent.getFileContentWithCache, one call per caller.  A step is the    *)
(* code of one call between two awaits.                                    *)
(***************************************************************************)
CacheCall(c) ==
    /\ pc = "tools"
    /\ cpc[c] = "idle"
    /\ \A d \in 1..(c - 1) : cpc[d] # "idle"
    /\ \E r \in RequestChoices :
          /\ req' = [req EXCEPT ![c] = r]
          /\ afterDone' = [afterDone EXCEPT ![c] =
                               \E d \in Callers : cpc[d] = "done" /\ req[d].path = r.path]
    /\ expired' = [expired EXCEPT ![c] = FALSE]
    \* acquireLock up to its first await: elapsed time is 0 at the first test
    /\ IF cacheLock
       THEN /\ cpc' = [cpc EXCEPT ![c] = "wait1"]
            /\ UNCHANGED << cacheLock, lockOwner >>
       ELSE /\ cacheLock' = TRUE
            /\ lockOwner' = c
            /\ cpc' = [cpc EXCEPT ![c] = "got1"]
    /\ UNCHANGED << reviewState, fileCache, fetched, result, fetches, used, cachedEver >>

\* time passes for a waiting call: Date.now() - start > timeout from now on
Expire(c) ==
    /\ cpc[c] \in {"wait1", "wait2"}
    /\ ~expired[c]
    /\ expired' = [expired EXCEPT ![c] = TRUE]
    /\ UNCHANGED << reviewState, cacheLock, fileCache, cpc, req, fetched, result,
                    fetches, lockOwner, afterDone, used, cachedEver >>

\* the 10 ms timer of the first acquireLock fired: the loop test again; a
\* timeout is thrown to the outer catch, which clears the flag if it is set
Poll1(c) ==
    /\ cpc[c] = "wait1"
    /\ ~cacheLock \/ expired[c]
    /\ IF ~cacheLock
       THEN /\ cacheLock' = TRUE
            /\ lockOwner' = c
            /\ cpc' = [cpc EXCEPT ![c] = "got1"]
            /\ UNCHANGED result
       ELSE /\ cacheLock' = FALSE
            /\ lockOwner' = 0
            /\ cpc' = [cpc EXCEPT ![c] = "failed"]
            /\ result' = [result EXCEPT ![c] = cacheError(MsgLockTimeout)]
    /\ UNCHANGED << reviewState, fileCache, req, expired, fetched, fetches, afterDone,
                    used, cachedEver >>

\* after await acquireLock(): the cache lookup; a hit returns, a miss releases
\* the lock and calls fileContentGetter
AfterAcquire(c) ==
    /\ cpc[c] = "got1"
    /\ cacheLock' = releaseLock(cacheLock)
    /\ lockOwner' = IF cacheLock' THEN lockOwner ELSE 0
    /\ IF cacheHas(fileCache, req[c].path)
       THEN /\ result' = [result EXCEPT ![c] = cacheResults[req[c], fileCache[req[c].path]]]
            /\ used' = [used EXCEPT ![c] = fileCache[req[c].path]]
            /\ cpc' = [cpc EXCEPT ![c] = "done"]
            /\ UNCHANGED fetches
       ELSE /\ fetches' = [fetches EXCEPT ![req[c].path] = @ + 1]
            /\ cpc' = [cpc EXCEPT ![c] = "fetching"]
            /\ UNCHANGED << result, used >>
    /\ UNCHANGED << reviewState, fileCache, req, expired, fetched, afterDone, cachedEver >>

\* fileContentGetter resolved: the second acquireLock up to its first await
FetchReturn(c) ==
    /\ cpc[c] = "fetching"
    /\ \E content \in UpstreamContents(req[c].path) :
          fetched' = [fetched EXCEPT ![c] = content]
    /\ expired' = [expired EXCEPT ![c] = FALSE]
    /\ IF cacheLock
       THEN /\ cpc' = [cpc EXCEPT ![c] = "wait2"]
            /\ UNCHANGED << cacheLock, lockOwner >>
       ELSE /\ cacheLock' = TRUE
            /\ lockOwner' = c
            /\ cpc' = [cpc EXCEPT ![c] = "got2"]
    /\ UNCHANGED << reviewState, fileCache, req, result, fetches, afterDone, used,
                    cachedEver >>

\* fileContentGetter rejected: finally releaseLock(), then the outer catch
FetchThrow(c) ==
    /\ cpc[c] = "fetching"
    /\ cacheLock' = FALSE
    /\ lockOwner' = 0
    /\ cpc' = [cpc EXCEPT ![c] = "failed"]
    /\ result' = [result EXCEPT ![c] = cacheError(MsgUpstream)]
    /\ UNCHANGED << reviewState, fileCache, req, expired, fetched, fetches, afterDone,
                    used, cachedEver >>

\* the 10 ms timer of the second acquireLock fired; a timeout runs the finally
\* block (releaseLock) and the outer catch
Poll2(c) ==
    /\ cpc[c] = "wait2"
    /\ ~cacheLock \/ expired[c]
    /\ IF ~cacheLock
       THEN /\ cacheLock' = TRUE
            /\ lockOwner' = c
            /\ cpc' = [cpc EXCEPT ![c] = "got2"]
            /\ UNCHANGED result
       ELSE /\ cacheLock' = FALSE
            /\ lockOwner' = 0
            /\ cpc' = [cpc EXCEPT ![c] = "failed"]
            /\ result' = [result EXCEPT ![c] = cacheError(MsgLockTimeout)]
    /\ UNCHANGED << reviewState, fileCache, req, expired, fetched, fetches, afterDone,
                    used, cachedEver >>

\* after the second await acquireLock(): fileCache.set, finally releaseLock(),
\* slice and return
Store(c) ==
    /\ cpc[c] = "got2"
    /\ fileCache' = cacheSet(fileCache, req[c].path, fetched[c])
    /\ cachedEver' = [cachedEver EXCEPT ![req[c].path] = @ \cup {fetched[c]}]
    /\ cacheLock' = releaseLock(cacheLock)
    /\ lockOwner' = IF cacheLock' THEN lockOwner ELSE 0
    /\ result' = [result EXCEPT ![c] = cacheResults[req[c], fetched[c]]]
    /\ used' = [used EXCEPT ![c] = fetched[c]]
    /\ cpc' = [cpc EXCEPT ![c] = "done"]
    /\ UNCHANGED << reviewState, req, expired, fetched, fetches, afterDone >>

\* the model is executing get_file_content tool calls
InitTools ==
    /\ pc = "tools"
    /\ provider = "google"
    /\ nFiles = MaxFiles
    /\ comments = << >>
    /\ headCommit = HeadSha
    /\ baseCommit = PrBaseSha
    /\ watch = 0
    /\ issuesLeft = 0
    /\ contLeft = 0
    /\ actionsLeft = 0
    /\ toolCap = MaxToolCalls
    /\ InitLocals

(***************************************************************************)
(* processChangedFiles: the changed files are filtered by the four rules   *)
(***************************************************************************)
InitFiltering ==
    /\ pc = "filter"
    /\ provider = "anthropic"
    /\ nFiles = 0
    /\ comments = << >>
    /\ headCommit = HeadSha
    /\ baseCommit = PrBaseSha
    /\ watch = 0
    /\ issuesLeft = 0
    /\ contLeft = 0
    /\ actionsLeft = 0
    /\ toolCap = MaxToolCalls
    /\ reviewSummary = << >>
    /\ InitRest
    /\ changedFiles \in SeqsUpTo(FileChoices, MaxChanged)
    /\ \E ie, ee, ip, ep \in RuleChoices : rules = Rules(ie, ee, ip, ep)
    /\ filteredDiffs = << >>
    /\ refiltered = << >>
    /\ InitPaging
    /\ InitHelpers
    /\ InitRuns

FilterFiles ==
    /\ pc = "filter"
    /\ filteredDiffs' = getFilteredChangedFiles(changedFiles, rules)
    /\ nFiles' = Len(filteredDiffs')
    /\ pc' = "filtered"
    /\ UNCHANGED << cacheVars, baseCommit, provider, comments, headCommit, watch,
                    reviewVars, fileVars, googleVars, mainVars, retryGhost, llmGhost,
                    gatewayGhost, budgetVars, changedFiles, rules, refiltered, pageVars, helperVars,
                    runVars >>

\* the filter applied to its own result
FilterAgain ==
    /\ pc = "filtered"
    /\ refiltered' = getFilteredChangedFiles(filteredDiffs, rules)
    /\ pc' = "refiltered"
    /\ UNCHANGED << cacheVars, baseCommit, envVars, reviewVars, fileVars, googleVars,
                    mainVars, retryGhost, llmGhost, gatewayGhost, budgetVars,
                    changedFiles, rules, filteredDiffs, pageVars,
                    helperVars, runVars >>

(***************************************************************************)
(* listPRComments: getAllPaginatedItems over issues.listComments           *)
(***************************************************************************)
\* sizes of the pages a host may hold
PageSizes == {0, 1, perPage - 1, perPage}

\* the items of page p of a host whose page p holds n items
PageItems(p, n) == [j \in 1..n |-> (p - 1) * perPage + j]

RECURSIVE HostsOf(_)
\* the hosts of exactly n pages
HostsOf(n) ==
    IF n = 0 THEN {<< >>}
    ELSE {Append(h, PageItems(n, s)) : h \in HostsOf(n - 1), s \in PageSizes}

HostChoices == UNION {HostsOf(n) : n \in 1..MaxPages}

\* the rel values of the Link header the host sends with page p: next and
\* last while a later page exists, prev and first after the first page
linkRels(pages, p) ==
    (IF p < Len(pages) THEN {"next", "last"} ELSE {})
        \cup (IF p > 1 THEN {"prev", "first"} ELSE {})

\* the response of issues.listComments to { per_page, page }: the Link
\* header is left out when there is nothing to link to
method(pages, p) ==
    [data |-> IF p \in 1..Len(pages) THEN pages[p] ELSE << >>,
     headers |-> [hasLink |-> linkRels(pages, p) # {}, link |-> linkRels(pages, p)]]

\* linkHeader && linkHeader.includes('rel="next"')
hasNextPage(headers) == headers.hasLink /\ "next" \in headers.link

\* if (!hasNextPage || items.length < perPage) break
breakLoop(response) == ~hasNextPage(response.headers) \/ Len(response.data) < perPage

RECURSIVE Flatten(_)
Flatten(pages) ==
    IF pages = << >> THEN << >> ELSE Head(pages) \o Flatten(Tail(pages))

InitListing ==
    /\ pc = "listing"
    /\ provider = "anthropic"
    /\ nFiles = 0
    /\ comments = << >>
    /\ headCommit = HeadSha
    /\ baseCommit = << >>
    /\ watch = 0
    /\ issuesLeft = 0
    /\ contLeft = 0
    /\ actionsLeft = 0
    /\ toolCap = MaxToolCalls
    /\ reviewSummary = << >>
    /\ InitRest
    /\ InitFilterInputs
    /\ hostPages \in HostChoices
    /\ allItems = << >>
    /\ page = 1
    /\ ppc = "request"
    /\ InitHelpers

\* one turn of the while (true) loop: the request either rejects, and the
\* catch block rethrows, or its items are pushed and the loop breaks or
\* goes to the next page
FetchPage ==
    /\ pc = "listing"
    /\ ppc = "request"
    /\ \/ /\ ppc' = "threw"
          /\ UNCHANGED << allItems, page >>
       \/ LET response == method(hostPages, page)
          IN /\ allItems' = allItems \o response.data
             /\ IF breakLoop(response)
                THEN ppc' = "returned" /\ UNCHANGED page
                ELSE page' = page + 1 /\ UNCHANGED ppc
    /\ UNCHANGED << cacheVars, pc, baseCommit, envVars, reviewVars, fileVars, googleVars,
                    mainVars, retryGhost, llmGhost, gatewayGhost, budgetVars,
                    changedFiles, rules, filteredDiffs, refiltered, hostPages,
                    helperVars, runVars >>

SpecListing == InitListing /\ [][FetchPage]_vars

(***************************************************************************)
(* The relocation search and the relevance score on their own              *)
(***************************************************************************)
DescriptionChoices == {DFoo, DBaz, DZip, DUnavailable, DFooFoo, DFooBar, DTheBaz}

LineChoices ==
    {LBrace, LFoo, LBar, LDecl, LUnavailable, << >>, << " ","}" >>,
     << "c","o","n","s","t"," ","f","o","o"," ","=" ," ","b","a","r" >>}

FileLineChoices == {LongFile, ShortFile, TallFile, << LUnavailable >>}

\* the idle values of the review and the listing
InitIdle ==
    /\ provider = "anthropic"
    /\ nFiles = 0
    /\ comments = << >>
    /\ headCommit = HeadSha
    /\ baseCommit = << >>
    /\ watch = 0
    /\ issuesLeft = 0
    /\ contLeft = 0
    /\ actionsLeft = 0
    /\ toolCap = MaxToolCalls
    /\ reviewSummary = << >>
    /\ InitRest
    /\ InitFilterInputs
    /\ InitPaging

\* findBetterMatchingLine(issue.description, fileLines, issue.lineStart, 10)
\* on an issue that passed the bounds check of the issue loop
InitRelocate ==
    /\ pc = "relocate"
    /\ InitIdle
    /\ \E comment \in DescriptionChoices, fileLines \in FileLineChoices :
       \E originalLine \in 1..Min({Len(fileLines), MaxLine}) :
          callArgs = [comment |-> comment, fileLines |-> fileLines,
                      originalLine |-> originalLine]
    /\ callResults = << >>

Relocate ==
    /\ pc = "relocate"
    /\ Len(callResults) < MaxCalls
    /\ callResults' = Append(callResults,
                             findBetterMatchingLine(callArgs.comment, callArgs.fileLines,
                                                    callArgs.originalLine, searchRadius))
    /\ UNCHANGED << cacheVars, pc, baseCommit, envVars, reviewVars, fileVars, googleVars,
                    mainVars, retryGhost, llmGhost, gatewayGhost, budgetVars,
                    changedFiles, rules, filteredDiffs, refiltered, pageVars, callArgs,
                    runVars >>

SpecRelocate == InitRelocate /\ [][Relocate]_vars

\* calculateRelevanceScore(comment, lineContent)
InitScore ==
    /\ pc = "score"
    /\ InitIdle
    /\ \E comment \in DescriptionChoices, lineContent \in LineChoices :
          callArgs = [comment |-> comment, lineContent |-> lineContent]
    /\ callResults = << >>

ScoreLine ==
    /\ pc = "score"
    /\ Len(callResults) < MaxCalls
    /\ callResults' = Append(callResults,
                             calculateRelevanceScore(callArgs.comment, callArgs.lineContent))
    /\ UNCHANGED << cacheVars, pc, baseCommit, envVars, reviewVars, fileVars, googleVars,
                    mainVars, retryGhost, llmGhost, gatewayGhost, budgetVars,
                    changedFiles, rules, filteredDiffs, refiltered, pageVars, callArgs,
                    runVars >>

SpecScore == InitScore /\ [][ScoreLine]_vars

(***************************************************************************)
(* Specifications                                                          *)
(***************************************************************************)
Next ==
    \/ ProcessInputs
    \/ AttemptStart
    \/ FileNext
    \/ AnalysisStep
    \/ ProcessIssue
    \/ FileDone
    \/ Summarize
    \/ Generate
    \/ ExecuteTool
    \/ CountAndReturn
    \/ RetryCatch
    \/ PostSummary
    \/ MainCatch

Spec == Init /\ [][Next]_vars

NextSteps ==
    \/ AttemptStart
    \/ FileNext
    \/ AnalysisStep
    \/ FileDone
    \/ Summarize

SpecSteps == InitSteps /\ [][NextSteps]_vars

\* every await of doReview settles: the promise of a provider or gateway
\* call resolves or rejects, and the continuation runs
SpecStepsFair == InitSteps /\ [][NextSteps]_vars /\ WF_vars(NextSteps)

\* doReview of either agent, with a model that may go on answering
\* analysisComplete = false for ever: up to MaxFiles files with issues, or
\* BudgetFiles files without
InitReview ==
    /\ pc = "attempt"
    /\ provider \in {"anthropic", "google"}
    /\ \/ nFiles \in 0..MaxFiles /\ issuesLeft = MaxIssues
       \/ nFiles = BudgetFiles /\ issuesLeft = 0
    /\ comments = << >>
    /\ headCommit = HeadSha
    /\ baseCommit = PrBaseSha
    /\ watch = 0
    /\ contLeft = Unlimited
    /\ actionsLeft = 0
    /\ toolCap = MaxToolCalls
    /\ InitLocals

NextReview ==
    \/ AttemptStart
    \/ FileNext
    \/ AnalysisStep
    \/ ProcessIssue
    \/ FileDone
    \/ Summarize
    \/ Generate
    \/ ExecuteTool
    \/ CountAndReturn
    \/ RetryCatch

\* every provider call, gateway call and wait of doReview settles
SpecReviewFair == InitReview /\ [][NextReview]_vars /\ WF_vars(NextReview)

\* AnthropicAgent.doReview with a model that may name a nextAction in up to
\* MaxActions of its answers
InitContext ==
    /\ pc = "attempt"
    /\ provider = "anthropic"
    /\ nFiles \in 1..MaxFiles
    /\ comments = << >>
    /\ headCommit = HeadSha
    /\ baseCommit = PrBaseSha
    /\ watch = 0
    /\ issuesLeft = MaxIssues
    /\ contLeft = MaxContinues
    /\ actionsLeft = MaxActions
    /\ toolCap = MaxToolCalls
    /\ InitLocals

NextContext ==
    \/ AttemptStart
    \/ FileNext
    \/ AnalysisStep
    \/ ProcessIssue
    \/ FileDone
    \/ Summarize

SpecContext == InitContext /\ [][NextContext]_vars

\* the workflow runs main again on the same pull request: the comments are
\* those of the run before plus the summary comment it created, if it created
\* one; the head may have moved and the filter may leave other files
NextInvocation ==
    /\ pc = "done"
    /\ runs < MaxRuns
    /\ LET posted == thrown \notin {"setup", "review", "summary", "post"} /\ summaryPosts # << >>
       IN /\ comments' = IF posted
                         THEN Append(comments, [body |-> summaryPosts[Len(summaryPosts)],
                                                sha |-> headCommit])
                         ELSE comments
          /\ prevPosted' = posted
    /\ prevBase' = baseCommit
    /\ runs' = runs + 1
    /\ headCommit' \in {headCommit, ShaB}
    /\ nFiles' \in 0..1
    /\ pc' = "start"
    /\ baseCommit' = << >>
    /\ reviewSummary' = << >>
    /\ reviewedFiles' = {}
    /\ fileIdx' = 0
    /\ stepCount' = 0
    /\ totalSteps' = 0
    /\ analysisComplete' = FALSE
    /\ pendingIssues' = << >>
    /\ attempts' = 0
    /\ scenario' = "0"
    /\ reviewStep' = NoStep
    /\ auxContext' = << >>
    /\ retries' = 0
    /\ commentsMade' = 0
    /\ toolCalls' = << >>
    /\ pendingTools' = << >>
    /\ errorMessage' = << >>
    /\ thrown' = "none"
    /\ summaryPosts' = << >>
    /\ flagInput' = << >>
    /\ failed' = FALSE
    /\ warned' = FALSE
    /\ backoffs' = 0
    /\ cooldowns' = 0
    /\ finalWaits' = 0
    /\ waits' = << >>
    /\ delays' = << >>
    /\ summaryThrew' = FALSE
    /\ lastStepThrew' = FALSE
    /\ anyError' = FALSE
    /\ nHanded' = 0
    /\ nAccepted' = 0
    /\ lastComment' = NoComment
    /\ outcomes' = << >>
    /\ lastSide' = "NONE"
    /\ lastIssue' = NoIssue
    /\ watchReqs' = 0
    /\ UNCHANGED << cacheVars, provider, watch, issuesLeft, contLeft, toolCap, actionsLeft,
                    changedFiles,
                    rules, filteredDiffs, refiltered, pageVars, helperVars >>

\* consecutive invocations of main on a pull request with up to MaxEarlier
\* earlier comments, with a model that reports no issue and calls no tool
InitInvocations ==
    /\ pc = "start"
    /\ provider \in {"anthropic", "google"}
    /\ nFiles \in 0..1
    /\ comments \in SeqsUpTo(CommentChoices, MaxEarlier)
    /\ headCommit = HeadSha
    /\ baseCommit = << >>
    /\ watch = 0
    /\ issuesLeft = 0
    /\ contLeft = 0
    /\ actionsLeft = 0
    /\ toolCap = 0
    /\ InitLocals

NextRuns ==
    \/ ProcessInputs
    \/ AttemptStart
    \/ FileNext
    \/ AnalysisStep
    \/ FileDone
    \/ Summarize
    \/ Generate
    \/ CountAndReturn
    \/ RetryCatch
    \/ PostSummary
    \/ MainCatch
    \/ NextInvocation

SpecRuns == InitInvocations /\ [][NextRuns]_vars

SpecBaseline == InitBaseline /\ [][ProcessInputs]_vars

NextRoundTrip ==
    \/ PostSummary
    \/ MainCatch
    \/ NextRun
    \/ ProcessInputs

SpecRoundTrip == InitRoundTrip /\ [][NextRoundTrip]_vars

\* the issue loop of the first step of a file, with one issue returned; the
\* files before it took one step each
InitPlacement ==
    /\ pc = "issues"
    /\ provider = "anthropic"
    /\ nFiles = MaxFiles + 1
    /\ comments = << >>
    /\ headCommit = HeadSha
    /\ baseCommit = PrBaseSha
    /\ watch = 0
    /\ issuesLeft = 0
    /\ contLeft = 0
    /\ actionsLeft = 0
    /\ toolCap = MaxToolCalls
    /\ reviewSummary = << >>
    /\ fileIdx \in 1..nFiles
    /\ reviewedFiles = 1..fileIdx
    /\ stepCount = 1
    /\ totalSteps = fileIdx
    /\ analysisComplete \in BOOLEAN
    /\ pendingIssues \in { << i >> : i \in PlacementIssues }
    /\ attempts = 1
    /\ scenario = "miss"
    /\ InitOther
    /\ InitFilter

SpecPlacement == InitPlacement /\ [][ProcessIssue]_vars

NextFilter ==
    \/ FilterFiles
    \/ FilterAgain

SpecFilter == InitFiltering /\ [][NextFilter]_vars

NextCache ==
    \E c \in Callers :
        \/ CacheCall(c)
        \/ Expire(c)
        \/ Poll1(c)
        \/ AfterAcquire(c)
        \/ FetchReturn(c)
        \/ FetchThrow(c)
        \/ Poll2(c)
        \/ Store(c)

SpecCache == InitTools /\ [][NextCache]_vars

\* the steps of a call that need nothing from outside: a continuation that
\* is ready, a timer that fires, time that passes
Progress(c) ==
    \/ Expire(c)
    \/ Poll1(c)
    \/ AfterAcquire(c)
    \/ Poll2(c)
    \/ Store(c)

\* the event loop runs every continuation that is ready, every timer fires
\* and time passes; an upstream fetch need not settle
SpecCacheFair ==
    /\ InitTools
    /\ [][NextCache]_vars
    /\ \A c \in Callers : WF_vars(Progress(c))

(***************************************************************************)
(* Properties                                                              *)
(***************************************************************************)
\* doReview returned a summary to main (the review phase completed)
reviewCompleted ==
    /\ nFiles > 0
    /\ pc \in {"returned", "main_catch", "done"}
    /\ thrown \notin {"setup", "review"}

\* C1: in any run of AnthropicAgent.doReview the analysis steps summed over
\* all files never exceed the global step budget of 50.
C1_GlobalBudget == totalSteps <= MAX_TOTAL_STEPS

\* the last file was started below the budget and pushed the total over it
C1_Overrun == fileIdx = BudgetFiles /\ totalSteps > MAX_TOTAL_STEPS

\* C2: no file receives more than 10 analysis-step requests during a run, and
\* a file that never reports analysisComplete is left after its 10th step:
\* the next thing the orchestrator does is to move to the next file, without
\* a further request for it.
C2_PerFileCap ==
    [][ /\ watchReqs' <= maxSteps
        /\ (pc = "step" /\ ~analysisComplete /\ stepCount = maxSteps)
              => /\ pc' = "file"
                 /\ fileIdx' = fileIdx + 1
                 /\ watchReqs' = watchReqs
                 /\ totalSteps' = totalSteps ]_vars

\* the watched file was given up after ten requests and the loop is at the
\* head of the next file
C2_Abandoned ==
    /\ pc = "file"
    /\ fileIdx = watch + 1
    /\ watchReqs = maxSteps
    /\ ~analysisComplete

\* C3: every line comment handed to the Host Gateway names a file of the
\* filtered list and a line range with 1 <= startLine <= endLine <= line
\* count of that file, on every posting path.
C3_CommentsInRange ==
    nHanded > 0 =>
        /\ lastComment.path \in 1..nFiles
        /\ 1 <= lastComment.startLine
        /\ lastComment.startLine <= lastComment.endLine
        /\ lastComment.endLine <= Len(FileContent(lastComment.path))

\* the add_review_comment tool handed the gateway a comment on a path outside
\* the filtered list
C3_HallucinatedPath ==
    /\ provider = "google"
    /\ nHanded > 0
    /\ lastComment.path = OtherFile

\* the add_review_comment tool handed the gateway a comment on a line past
\* the end of a listed file
C3_LineBeyondFile ==
    /\ provider = "google"
    /\ nHanded > 0
    /\ lastComment.path = 1
    /\ lastComment.startLine > Len(FileContent(1))

\* C4: an issue whose lines are out of range (lineStart or lineEnd beyond the
\* line count, lineStart < 1, lineStart > lineEnd) is never posted, clamped
\* or relocated, leaves the comment counter alone, and the issues after it
\* in the same step are still processed.
C4_OutOfRangeSkipped ==
    [][ (/\ pc = "issues"
         /\ pendingIssues # << >>
         /\ LET i == Head(pendingIssues)
                n == Len(FileContent(fileIdx))
            IN i.lineStart > n \/ i.lineEnd > n \/ i.lineStart < 1
               \/ i.lineStart > i.lineEnd)
        => /\ nHanded' = nHanded
           /\ lastComment' = lastComment
           /\ commentsMade' = commentsMade
           /\ pendingIssues' = Tail(pendingIssues)
           /\ pc' = IF Tail(pendingIssues) = << >> THEN "step" ELSE "issues" ]_vars

\* the first issue of a step was out of range and skipped, the second one of
\* the same step was posted
C4_SkippedThenPosted ==
    /\ outcomes = << "invalid", "post" >>
    /\ stepCount = 1
    /\ fileIdx = 1
    /\ commentsMade = 1
    /\ nHanded = 1

\* C5: the pipeline is attempted at most 3 times; when the third attempt
\* fails the error propagates without a fourth attempt and without any
\* further wait, and doReview returns no summary.
C5_ThreeAttemptsNoFinalWait ==
    /\ attempts <= maxRetries
    /\ finalWaits = 0
    /\ thrown = "review" => (reviewSummary = << >> /\ summaryPosts = << >>)

\* the third attempt failed with a rate-limit error and the 10 s wait was
\* made before the error was rethrown
C5_CooldownAfterLastAttempt ==
    /\ thrown = "review"
    /\ attempts = maxRetries
    /\ finalWaits = 1

\* C6: when the provider call throws on the first two attempts and succeeds
\* on the third, the run completes, exactly 2 backoff delays are observed and
\* exactly one summary comment is posted (the gateway accepting what it is
\* handed).
C6_TwoThrowsThenSuccess ==
    (scenario = "hit" /\ pc = "done" /\ thrown # "post") =>
        /\ thrown = "none"
        /\ backoffs = 2
        /\ Len(summaryPosts) = 1

\* AnthropicAgent: the first two provider calls threw, the third succeeded,
\* the run completed with its summary posted, and no backoff was made
C6_AnthropicNoBackoff ==
    /\ provider = "anthropic"
    /\ scenario = "hit"
    /\ pc = "done"
    /\ thrown = "none"
    /\ Len(summaryPosts) = 1
    /\ attempts = 1
    /\ backoffs = 0

\* C7: if the aggregation request throws, the run neither fails nor retries:
\* doReview returns the fallback summary built from the counters (N files
\* recorded as reviewed, M comments posted) and main posts exactly one summary
\* comment, which carries that summary.
C7_SummaryFallback ==
    (summaryThrew /\ pc \in {"returned", "main_catch", "done"}) =>
        /\ attempts = 1 /\ retries = 0 /\ backoffs = 0 /\ cooldowns = 0
        /\ thrown \notin {"review", "summary"}
        /\ startsWith(reviewSummary,
                      SummaryHeader \o << "R","e","v","i","e","w","e","d"," " >>
                      \o toString(Cardinality(reviewedFiles))
                      \o << " ","f","i","l","e","s"," " >>)
        /\ endsWith(reviewSummary,
                    << " ","f","o","u","n","d"," " >> \o toString(nAccepted)
                    \o << " ","i","s","s","u","e","s","." >>)
        /\ pc # "returned" => summaryPosts = << commentBody(headCommit, reviewSummary) >>

\* the aggregation request threw after two files were reviewed and one comment
\* was posted, and the run ended with the summary comment posted
C7_FallbackPosted ==
    /\ summaryThrew
    /\ pc = "done"
    /\ thrown = "none"
    /\ Cardinality(reviewedFiles) = 2
    /\ nAccepted = 1
    /\ Len(summaryPosts) = 1

\* C8: a run whose review phase completes posts exactly one summary comment,
\* only after every line comment of the run, and its body is the marker
\* prefix, the head commit SHA, the summary separator and the summary.
C8_OneSummaryLast ==
    /\ [](reviewCompleted /\ pc = "done"
            => /\ Len(summaryPosts) = 1
               /\ summaryPosts[1] = commentBody(headCommit, reviewSummary))
    /\ [][summaryPosts # << >> => nHanded' = nHanded]_vars

\* GoogleAgent.doReview returned a whitespace-only summary: the review phase
\* completed and the run ended without a summary comment
C8_CompletedWithoutSummary ==
    /\ reviewCompleted
    /\ pc = "done"
    /\ thrown = "summary"
    /\ reviewSummary = TextBlank
    /\ summaryPosts = << >>

\* C9: if the review throws (retries exhausted, or the PR head/base cannot be
\* resolved) no summary comment is posted, and the invocation is marked failed
\* if and only if the fail-on-error flag is set; otherwise it ends cleanly
\* with a warning.
C9_FailPolicy ==
    (pc = "done" /\ thrown \in {"setup", "review"}) =>
        /\ summaryPosts = << >>
        /\ failed <=> createFailAction(flagInput)
        /\ ~failed => warned

\* the retries were exhausted with the flag given as "True", which
\* InputProcessor.create reads as set: the run ended with a warning, not failed
C9_MixedCaseFlagNotFailed ==
    /\ pc = "done"
    /\ thrown = "review"
    /\ flagInput = FlagMixed
    /\ createFailAction(flagInput)
    /\ ~failed
    /\ warned

\* C10: if comments start with the marker prefix, the effective base commit
\* is the SHA recorded in the last of them in list order, not the PR's base
\* and not the SHA of an older marker comment.
C10_LastMarkerWins ==
    (pc \in {"attempt", "done"} /\ thrown = "none") =>
        LET markers == {i \in 1..Len(comments) :
                           startsWith(comments[i].body, AI_REVIEW_COMMENT_PREFIX)}
        IN (markers # {} /\ comments[Max(markers)].sha # << >>)
              => baseCommit = comments[Max(markers)].sha

\* an older marker for ShaA, a newer one for ShaB, then a foreign comment: the
\* base resolved is ShaB
C10_NewerMarkerResolved ==
    /\ pc = "attempt"
    /\ comments = << MarkerComment(ShaA, TextOk), MarkerComment(ShaB, TextOk),
                     [body |-> TextLgtm, sha |-> << >>] >>
    /\ baseCommit = ShaB

\* the comments of a list whose body starts with the marker prefix, in order
onlyMarkers(cs) ==
    SelectSeq(cs, LAMBDA c : startsWith(c.body, AI_REVIEW_COMMENT_PREFIX))

\* C11: once processInputs has resolved the base, a pull request without
\* comments, or with none that starts with the marker prefix, is reviewed from
\* the PR's base commit, and the base resolved is the one resolved from the
\* prefix-starting comments alone: a comment that does not start with the
\* prefix changes nothing, whatever its body contains.
C11_NonMarkersIgnored ==
    (pc \in {"attempt", "done"} /\ thrown = "none") =>
        /\ onlyMarkers(comments) = << >> => baseCommit = PrBaseSha
        /\ baseCommit = resolveBaseCommit(onlyMarkers(comments), PrBaseSha)

\* the only comment quotes a whole marker for ShaB after other text: the base
\* is the PR's base
C11_QuotedMarkerIgnored ==
    /\ pc = "attempt"
    /\ comments = << [body |-> TextLgtm \o << " " >> \o commentBody(ShaB, TextOk),
                      sha |-> << >>] >>
    /\ baseCommit = PrBaseSha

\* a body that starts with the prefix but has no separator, or nothing but
\* white space between the prefix and the first separator
malformedMarker(body) ==
    /\ startsWith(body, AI_REVIEW_COMMENT_PREFIX)
    /\ LET rest == SubSeq(body, Len(AI_REVIEW_COMMENT_PREFIX) + 1, Len(body))
           k == indexOf(rest, SUMMARY_SEPARATOR)
       IN k = 0 \/ \A i \in 1..(k - 1) : rest[i] \in WhiteSpace

\* C12: when the last comment that starts with the marker prefix is malformed
\* (no SHA before the separator, or no separator at all), the base resolved
\* is the PR's base commit.
C12_MalformedMarkerIgnored ==
    (pc \in {"attempt", "done"} /\ thrown = "none") =>
        LET m == onlyMarkers(comments)
        IN (m # << >> /\ malformedMarker(m[Len(m)].body)) => baseCommit = PrBaseSha

\* a marker without separator and without SHA: its first word became the base
C12_GarbageBase ==
    /\ pc = "attempt"
    /\ comments = << [body |-> AI_REVIEW_COMMENT_PREFIX \o TextLgtm, sha |-> << >>] >>
    /\ baseCommit = TextLgtm

\* C13: in the run that follows a run whose summary comment was created, the
\* base resolved is exactly the head SHA that comment was written for,
\* whatever the summary text is and whatever comments came before it.
C13_MarkerRoundTrip ==
    (pc \in {"attempt", "done"} /\ thrown = "none" /\ summaryPosts = << >>
        /\ comments # << >>)
        => baseCommit = comments[Len(comments)].sha

\* the summary written for ShaA itself holds a separator, the prefix and
\* ShaB; the next run resolves ShaA
C13_NestedMarkerResolved ==
    /\ pc = "attempt"
    /\ comments # << >>
    /\ comments[Len(comments)].body =
           commentBody(ShaA, SUMMARY_SEPARATOR \o AI_REVIEW_COMMENT_PREFIX \o ShaB)
    /\ baseCommit = ShaA

\* C14: when every call asked for the same path and all of them returned,
\* fileContentGetter was called exactly once for that path and all calls
\* sliced their result from the same content.
C14_SingleFetch ==
    (/\ \A c \in Callers : cpc[c] = "done"
     /\ \A c \in Callers : req[c].path = req[1].path)
        => /\ fetches[req[1].path] = 1
           /\ \A c \in Callers : used[c] = used[1]

\* all calls asked for a.ts and returned: one fetch each, and the first call
\* got the file while the second got the unavailable notice
C14_DuplicateFetch ==
    /\ \A c \in Callers : cpc[c] = "done" /\ req[c].path = PathA
    /\ fetches[PathA] = NCallers
    /\ used[1] = LetterFile
    /\ used[2] = LUnavailable

\* a call is between a successful acquireLock and its own releaseLock
inCritical(c) == cpc[c] \in {"got1", "got2"}

\* C15: at most one call at a time is between a successful acquire and its
\* own release, and whenever the flag goes from set to clear the step is one
\* of the call that set it (every step moves the call that takes it).
C15_MutualExclusion ==
    /\ [](Cardinality({c \in Callers : inCritical(c)}) <= 1)
    /\ [][(cacheLock /\ ~cacheLock') => cpc'[lockOwner] # cpc[lockOwner]]_vars

\* two calls hold the lock at once
C15_TwoHolders ==
    \E c, d \in Callers : c # d /\ inCritical(c) /\ inCritical(d)

waiting(c) == cpc[c] \in {"wait1", "wait2"}
allFinished == \A c \in Callers : cpc[c] \in {"idle", "done", "failed"}

\* C16: a call that waits for the lock eventually stops waiting; it leaves
\* the wait by failing only after its timeout has passed, and then with the
\* lock-timeout error; and whenever no call is in flight the flag is clear.
C16_BoundedWait ==
    /\ \A c \in Callers : waiting(c) ~> ~waiting(c)
    /\ [](allFinished => ~cacheLock)
    /\ [][\A c \in Callers :
            (waiting(c) /\ cpc'[c] = "failed")
                => (expired[c] /\ result'[c] = cacheError(MsgLockTimeout))]_vars

\* every call was made and finished, one of them with the lock-timeout error,
\* and the flag is clear
C16_TimedOutAndClear ==
    /\ \A c \in Callers : cpc[c] \in {"done", "failed"}
    /\ \E c \in Callers : result[c] = cacheError(MsgLockTimeout)
    /\ ~cacheLock

\* C17: a call that began after a call for the same path had returned never
\* calls fileContentGetter, and what it returns is the fenced block of the
\* lines max(1, start - 20) .. min(line count, end + 20) of a content that
\* was stored in the cache for that path.
C17_LaterRequestsHit ==
    \A c \in Callers :
        afterDone[c] =>
            /\ cpc[c] \notin {"fetching", "wait2", "got2"}
            /\ cpc[c] = "done" =>
                  \E content \in cachedEver[req[c].path] :
                      LET lines == splitLines(content)
                          from == Max({1, req[c].startLine - 20})
                          to == Min({Len(lines), req[c].endLine + 20})
                      IN result[c] = Fence \o req[c].path \o << "\n" >>
                                        \o joinLines(SubSeq(lines, from, to))
                                        \o << "\n" >> \o Fence

\* a.ts was fetched once for lines 1-1; a later call for lines 23-24 was
\* served from the cache
C17_SecondRangeServed ==
    /\ req[1] = Request(PathA, 1, 1)
    /\ req[2] = Request(PathA, 23, 24)
    /\ afterDone[2]
    /\ cpc[2] = "done"
    /\ fetches[PathA] = 1

(***************************************************************************)
(* The file filter                                                         *)
(***************************************************************************)
\* the rule of the filter over the four token sets
keptByRule(filename, ie, ee, ip, ep) ==
    LET f == replaceBackslashes(filename)
    IN /\ ie = {} \/ \E t \in ie : endsWith(f, t)
       /\ ~\E t \in ee : endsWith(f, t)
       /\ ip = {} \/ \E t \in ip : startsWith(f, t)
       /\ ~\E t \in ep : startsWith(f, t)

RECURSIVE joinComma(_)
joinComma(a) ==
    IF a = << >> THEN << >>
    ELSE IF Len(a) = 1 THEN a[1]
    ELSE a[1] \o << "," >> \o joinComma(Tail(a))

\* the same rule input with its tokens in the opposite order
reversedRule(s) ==
    LET items == splitBy(s, ",")
    IN joinComma([i \in 1..Len(items) |-> items[Len(items) + 1 - i]])

reversedRules(r) ==
    Rules(reversedRule(r.includeExtensions), reversedRule(r.excludeExtensions),
          reversedRule(r.includePaths), reversedRule(r.excludePaths))

\* C18: a file is kept exactly when it ends with a token of the include
\* extensions (or that list is empty), ends with no token of the exclude
\* extensions, starts with a token of the include paths (or that list is
\* empty) and starts with no token of the exclude paths; a file matched by an
\* exclude list is never kept, and the order of the tokens does not matter.
C18_FilterRule ==
    pc # "filter" =>
        LET ie == Range(stringToArray(rules.includeExtensions))
            ee == Range(stringToArray(rules.excludeExtensions))
            ip == Range(stringToArray(rules.includePaths))
            ep == Range(stringToArray(rules.excludePaths))
        IN /\ filteredDiffs =
                SelectSeq(changedFiles, LAMBDA file : keptByRule(file.filename, ie, ee, ip, ep))
           /\ \A i \in 1..Len(filteredDiffs) :
                LET f == replaceBackslashes(filteredDiffs[i].filename)
                IN /\ \A t \in ee : ~endsWith(f, t)
                   /\ \A t \in ep : ~startsWith(f, t)
           /\ getFilteredChangedFiles(changedFiles, reversedRules(rules)) = filteredDiffs

\* a file that an include list admits and an exclude list rejects was dropped,
\* next to a file that was kept
C18_ExcludeWins ==
    /\ pc = "filtered"
    /\ rules.includeExtensions = << ".","j","s",","," ",".","t","s" >>
    /\ rules.excludePaths = << "d","o","c","s","/",",","s","r","c",BackSlash >>
    /\ Len(changedFiles) = 2
    /\ changedFiles[1].filename = << "s","r","c",BackSlash,"b",".","j","s" >>
    /\ filteredDiffs = << changedFiles[2] >>

RECURSIVE isSubsequence(_, _)
isSubsequence(a, b) ==
    IF a = << >> THEN TRUE
    ELSE IF b = << >> THEN FALSE
    ELSE IF Head(a) = Head(b) THEN isSubsequence(Tail(a), Tail(b))
    ELSE isSubsequence(a, Tail(b))

\* C19: filtering the filtered list again changes nothing, and the filtered
\* list is a subsequence of the changed files, in their order, each record
\* as it was.
C19_FilterIdempotent ==
    /\ pc # "filter" => isSubsequence(filteredDiffs, changedFiles)
    /\ pc = "refiltered" => refiltered = filteredDiffs

\* a list of two files lost its first file, kept the second one with its
\* backslash, and was filtered a second time
C19_KeptInOrder ==
    /\ pc = "refiltered"
    /\ Len(changedFiles) = 2
    /\ filteredDiffs = << changedFiles[2] >>
    /\ changedFiles[2].filename = << "s","r","c",BackSlash,"b",".","j","s" >>
    /\ changedFiles[1] # changedFiles[2]

\* a token is matched by its own form: as a suffix when it starts with a
\* dot, otherwise as a path prefix
matchedByForm(f, t) ==
    IF startsWith(t, << "." >>) THEN endsWith(f, t) ELSE startsWith(f, t)

keptByForm(filename, ie, ee, ip, ep) ==
    LET f == replaceBackslashes(filename)
    IN /\ ie = {} \/ \E t \in ie : matchedByForm(f, t)
       /\ ~\E t \in ee : matchedByForm(f, t)
       /\ ip = {} \/ \E t \in ip : matchedByForm(f, t)
       /\ ~\E t \in ep : matchedByForm(f, t)

\* C20: in each of the four lists a token that starts with a dot is matched
\* as a suffix of the file name and any other token, suffixed with a slash,
\* as a prefix of it, so that the rule src admits src/a.ts and not
\* srcfoo/a.ts in whichever list it stands.
C20_MatchedByForm ==
    pc # "filter" =>
        filteredDiffs =
            SelectSeq(changedFiles,
                LAMBDA file : keptByForm(file.filename,
                                  Range(stringToArray(rules.includeExtensions)),
                                  Range(stringToArray(rules.excludeExtensions)),
                                  Range(stringToArray(rules.includePaths)),
                                  Range(stringToArray(rules.excludePaths))))

\* the include rule src, given as an extension rule, dropped src/a.ts
C20_PathTokenAsSuffix ==
    /\ pc = "filtered"
    /\ rules = Rules(<< "s","r","c" >>, << >>, << >>, << >>)
    /\ changedFiles = << ChangedFile(<< "s","r","c","/","a",".","t","s" >>, "modified") >>
    /\ filteredDiffs = << >>

(***************************************************************************)
(* Errors inside the file loop                                             *)
(***************************************************************************)
\* C21: an error raised in an analysis step ends the loop of that file only:
\* the step leaves analysisComplete true, the next thing the orchestrator
\* does is to move to the next file without a further request, nothing is
\* thrown and no attempt is restarted, every file is still recorded and
\* analysed unless the budget ran out, and the run reaches its summary.
C21_StepErrorEndsFile ==
    /\ [](anyError => thrown = "none" /\ retries = 0 /\ attempts = 1 /\ backoffs = 0)
    /\ []((anyError /\ pc \in {"summary", "returned"} /\ totalSteps < MAX_TOTAL_STEPS)
            => reviewedFiles = 1..nFiles /\ watchReqs >= 1)
    /\ [][ /\ (lastStepThrew' /\ totalSteps' # totalSteps)
                => /\ pc' = "step"
                   /\ analysisComplete'
                   /\ pendingIssues' = << >>
                   /\ fileIdx' = fileIdx
           /\ (lastStepThrew /\ pc = "step" /\ stepCount > 0)
                => /\ pc' = "file"
                   /\ fileIdx' = fileIdx + 1
                   /\ totalSteps' = totalSteps ]_vars
    /\ (anyError ~> pc = "returned")

\* the only step of the first file ended in an error and the second file got
\* its first request, which returned
C21_ErrorThenNextFile ==
    /\ pc = "step"
    /\ fileIdx = 2
    /\ watch = 2
    /\ watchReqs = 1
    /\ totalSteps = 2
    /\ anyError
    /\ ~lastStepThrew

\* the fetch of file f failed: GitHubAPI.getContent returned its sentinel
fetchFailed(f) == f >= 1 /\ FileContent(f) = << LUnavailable >>

\* C22: for a file whose content could not be fetched no analysis step is
\* requested and no comment is posted on it.
C22_FailedFetchSkipped ==
    fetchFailed(watch) =>
        /\ watchReqs = 0
        /\ nHanded > 0 => lastComment.path # watch

\* the third file could not be fetched and an analysis step was requested
\* for it
C22_UnfetchedFileAnalysed ==
    /\ watch = 3
    /\ fileIdx = 3
    /\ fetchFailed(3)
    /\ pc = "step"
    /\ watchReqs = 1

\* C23: in AnthropicAgent.doReview every file the file loop has entered is in
\* reviewedFiles, whatever became of it (analysed, unfetchable, stopped by a
\* step error or by the step limit), all files are in it at the summary
\* unless the budget ended the loop, and it holds no other name.
C23_AllRecorded ==
    /\ reviewedFiles \subseteq 1..nFiles
    /\ \A f \in 1..nFiles :
          (f < fileIdx \/ (f = fileIdx /\ pc \in {"step", "issues"}))
              => f \in reviewedFiles
    /\ watchReqs > 0 => watch \in reviewedFiles
    /\ (pc \in {"summary", "returned"} /\ totalSteps < MAX_TOTAL_STEPS)
          => reviewedFiles = 1..nFiles

\* the loop is over: all files are recorded, among them an unfetchable file
\* that was left at the step limit, and a step of some file had failed
C23_RecordedAfterLimit ==
    /\ pc = "summary"
    /\ reviewedFiles = 1..BudgetFiles
    /\ watch = 3
    /\ fetchFailed(3)
    /\ watchReqs = maxSteps
    /\ anyError

(***************************************************************************)
(* Order of the line comments                                              *)
(***************************************************************************)
\* C24: in AnthropicAgent.doReview a line comment is posted for the first
\* issue still pending of the current step of the current file, at the place
\* the issue loop decided; the file of a comment is never before the file of
\* the comment posted before it, and no request of a further step is made
\* while an issue of the step before is pending.
C24_PostingOrder ==
    [][ /\ (provider = "anthropic" /\ nHanded' = nHanded + 1)
            => /\ pc = "issues"
               /\ pendingIssues' = Tail(pendingIssues)
               /\ issueOutcomes[fileIdx, Head(pendingIssues)].kind = "post"
               /\ lastComment' =
                     [path |-> fileIdx,
                      startLine |-> issueOutcomes[fileIdx, Head(pendingIssues)].startLine,
                      endLine |-> issueOutcomes[fileIdx, Head(pendingIssues)].endLine]
               /\ nHanded > 0 => lastComment.path <= lastComment'.path
               /\ attempts' = attempts
        /\ (provider = "anthropic" /\ pc = "issues")
            => /\ Len(outcomes') = Len(outcomes) + 1
               /\ pendingIssues' = Tail(pendingIssues)
               /\ fileIdx' = fileIdx
               /\ totalSteps' = totalSteps
        /\ totalSteps' # totalSteps => pendingIssues = << >> ]_vars

\* a comment was posted on the first file and the issue loop of the second
\* file is about to handle an issue
C24_SecondFileAfterFirst ==
    /\ provider = "anthropic"
    /\ pc = "issues"
    /\ fileIdx = 2
    /\ nHanded = 1
    /\ nAccepted = 1
    /\ lastComment.path = 1
    /\ issueOutcomes[2, Head(pendingIssues)].kind = "post"

C26_CooldownThenBackoff ==
    [][ /\ (pc = "catch" /\ pc' = "attempt")
            => waits' = waits \o
                  (IF includes(errorMessage, MsgRateLimit) \/ includes(errorMessage, MsgQuota)
                   THEN << "cooldown", "backoff" >>
                   ELSE << "backoff" >>)
        /\ pc # "catch" => waits' = waits ]_vars

\* the first attempt failed without a rate-limit signal, the second with
\* one, and the third attempt is about to start
C26_BothKindsOfFailure ==
    /\ pc = "attempt"
    /\ retries = 2
    /\ waits = << "backoff", "cooldown", "backoff" >>

(***************************************************************************)
(* Side and placement of a line comment                                    *)
(***************************************************************************)
\* C27: a line comment on a removed file, whose lines are all deletions, is
\* not handed to the host with side RIGHT, and side LEFT is not used on a
\* file that was added.
C27_SideFollowsDiff ==
    (nHanded > 0 /\ lastComment.path \in 1..nFiles) =>
        /\ FileStatus(lastComment.path) = "removed" => lastSide # "RIGHT"
        /\ lastSide = "LEFT" => FileStatus(lastComment.path) # "added"

\* a comment on the removed file was handed to the host with side RIGHT
C27_RightOnRemovedFile ==
    /\ nHanded = 1
    /\ lastComment.path = 3
    /\ FileStatus(3) = "removed"
    /\ lastSide = "RIGHT"

\* the description shares a keyword with a line from 3 lines before lineStart
\* to 3 lines after lineEnd
sharesKeywordNearby(issue, fileLines) ==
    \E l \in Max({1, issue.lineStart - contextWindow})
              ..Min({Len(fileLines), issue.lineEnd + contextWindow}) :
        hasCommonKeywords(issue.description, fileLines[l])

\* the lines within 10 lines of lineStart that score higher than lineStart
higherScoringLines(issue, fileLines) ==
    { l \in Max({1, issue.lineStart - searchRadius})
              ..Min({Len(fileLines), issue.lineStart + searchRadius}) :
        calculateRelevanceScore(issue.description, fileLines[l])
            > calculateRelevanceScore(issue.description, fileLines[issue.lineStart]) }

\* C30: an issue within the bounds of the file is handed to the host at its
\* own range if its description shares a keyword with a line from 3 lines
\* before lineStart to 3 lines after lineEnd; if not, and a line within 10
\* lines of lineStart scores higher than lineStart, it is handed over as a
\* comment on one such line; otherwise nothing is handed over.
C30_Placement ==
    [][ (pc = "issues" /\ ~invalidLines(Head(pendingIssues), Len(FileContent(fileIdx))))
        => LET issue == Head(pendingIssues)
               fileLines == FileContent(fileIdx)
           IN IF sharesKeywordNearby(issue, fileLines)
              THEN /\ nHanded' = nHanded + 1
                   /\ lastComment' = [path |-> fileIdx, startLine |-> issue.lineStart,
                                       endLine |-> issue.lineEnd]
              ELSE IF higherScoringLines(issue, fileLines) # {}
              THEN /\ nHanded' = nHanded + 1
                   /\ lastComment'.path = fileIdx
                   /\ lastComment'.startLine \in higherScoringLines(issue, fileLines)
                   /\ lastComment'.endLine = lastComment'.startLine
              ELSE nHanded' = nHanded ]_vars

\* an issue on the last line of the first file, whose sixth line scores
\* higher, was handled and nothing was handed to the host
C30_RelocationLost ==
    /\ pc = "step"
    /\ fileIdx = 1
    /\ lastIssue = Issue(12, 12, DBaz)
    /\ 6 \in higherScoringLines(lastIssue, FileContent(1))
    /\ ~sharesKeywordNearby(lastIssue, FileContent(1))
    /\ outcomes = << "threw" >>
    /\ nHanded = 0

\* C28: when every provider call, gateway call and wait settles, doReview
\* ends: it returns a summary or throws to main after the last attempt. On
\* the way no loop passes its bound: at most maxRetries attempts, at most
\* maxSteps steps on a file, and no file is begun once MAX_TOTAL_STEPS steps
\* were made, so that fewer than MAX_TOTAL_STEPS + maxSteps steps are made.
doReviewEnded == pc = "returned" \/ (pc = "main_catch" /\ thrown = "review")

C28_Terminates ==
    /\ [](retries < maxRetries /\ attempts <= maxRetries)
    /\ [](stepCount <= maxSteps /\ totalSteps < MAX_TOTAL_STEPS + maxSteps)
    /\ [](thrown = "review" => attempts = maxRetries)
    /\ <>doReviewEnded

\* doReview returned after the global step budget ran out
C28_EndedAtGlobalCap ==
    pc = "returned" /\ totalSteps >= MAX_TOTAL_STEPS /\ fileIdx <= nFiles

\* C29: the list getAllPaginatedItems returns is the items of every page the
\* host has, in page order, and the loop ends at the page that carries no
\* next link.
C29_AllPages ==
    ppc = "returned" => (allItems = Flatten(hostPages) /\ page = Len(hostPages))

\* the loop ended at a page that announced a next page with items on it
C29_AnnouncedPageDropped ==
    /\ ppc = "returned"
    /\ "next" \in linkRels(hostPages, page)
    /\ hostPages[page + 1] # << >>
    /\ Len(allItems) < Len(Flatten(hostPages))

\* C31: findBetterMatchingLine returns the original line unless a line within
\* the radius scores strictly higher, then the lowest-numbered line of the
\* highest score; and every call with the same arguments returns the same line.
linesInRadius(fileLines, originalLine, radius) ==
    {l \in 1..Len(fileLines) : l >= originalLine - radius /\ l <= originalLine + radius}

bestLine(comment, fileLines, originalLine, radius) ==
    LET cand == linesInRadius(fileLines, originalLine, radius)
        top == Max({calculateRelevanceScore(comment, fileLines[l]) : l \in cand})
    IN IF top > calculateRelevanceScore(comment, fileLines[originalLine])
       THEN Min({l \in cand : calculateRelevanceScore(comment, fileLines[l]) = top})
       ELSE originalLine

C31_BestLine ==
    (pc = "relocate" /\ callResults # << >>) =>
        \A k \in 1..Len(callResults) :
            /\ ~callResults[k].threw
            /\ callResults[k].line = bestLine(callArgs.comment, callArgs.fileLines,
                                              callArgs.originalLine, searchRadius)
            /\ callResults[k] = callResults[1]

\* a call on a line whose score no line of the file beats returned no line
C31_NoLineReturned ==
    /\ pc = "relocate"
    /\ Len(callResults) = MaxCalls
    /\ callResults[1].threw
    /\ bestLine(callArgs.comment, callArgs.fileLines, callArgs.originalLine, searchRadius)
          = callArgs.originalLine

\* C32: the score of a description and a line is 2 for every distinct
\* token the two share, plus 5 when the line holds a declaration keyword and
\* one of its identifiers occurs in the description, minus 2 when the trimmed
\* line has fewer than 3 characters.
sharedTokens(comment, lineContent) ==
    Range(extractKeywords(comment)) \cap Range(extractKeywords(lineContent))

declarationBonus(comment, lineContent) ==
    IF /\ \E w \in DeclWords : includes(toLowerCase(lineContent), w)
       /\ \E id \in Range(extractIdentifiers(lineContent)) :
             includes(toLowerCase(comment), toLowerCase(id))
    THEN 5 ELSE 0

C32_Score ==
    (pc = "score" /\ callResults # << >>) =>
        \A k \in 1..Len(callResults) :
            callResults[k] = 2 * Cardinality(sharedTokens(callArgs.comment, callArgs.lineContent))
                             + declarationBonus(callArgs.comment, callArgs.lineContent)
                             - (IF Len(trim(callArgs.lineContent)) < 3 THEN 2 ELSE 0)

\* one shared token that the description names twice was counted twice
C32_RepeatedTokenCountedTwice ==
    /\ pc = "score"
    /\ callResults # << >>
    /\ Cardinality(sharedTokens(callArgs.comment, callArgs.lineContent)) = 1
    /\ declarationBonus(callArgs.comment, callArgs.lineContent) = 0
    /\ Len(trim(callArgs.lineContent)) >= 3
    /\ callResults[1] = 4

\* C35: the relocation search scores only indices of lines that exist, so a
\* search from any line of the file raises no error.
C35_ReadsInsideFile ==
    (pc = "relocate" /\ callResults # << >>) =>
        /\ scoredIndices(callArgs.fileLines, callArgs.originalLine, searchRadius)
              \subseteq 0..(Len(callArgs.fileLines) - 1)
        /\ ~callResults[1].threw

\* the search from a line within 10 lines of the end of the file raised an
\* error although a line in reach scores higher than the original
C35_ReadsPastEnd ==
    /\ pc = "relocate"
    /\ callResults # << >>
    /\ Len(callArgs.fileLines) \in
          scoredIndices(callArgs.fileLines, callArgs.originalLine, searchRadius)
    /\ callResults[1].threw
    /\ bestLine(callArgs.comment, callArgs.fileLines, callArgs.originalLine, searchRadius)
          # callArgs.originalLine

\* C33: the backoff waited after failed attempt k (k = 0, 1) is between
\* 1000 * 2^k ms and less than 1000 ms more, so the second backoff is never
\* shorter than the first and no backoff reaches 3000 ms.
C33_BackoffDelay ==
    /\ Len(delays) = backoffs
    /\ Len(delays) <= maxRetries - 1
    /\ \A k \in 1..Len(delays) :
          /\ delays[k] >= 1000 * 2 ^ (k - 1)
          /\ delays[k] < 1000 * 2 ^ (k - 1) + 1000
          /\ delays[k] < 3000
    /\ Len(delays) = 2 => delays[2] >= delays[1]

\* the longest first backoff was followed by the shortest second one
C33_TwoBackoffs ==
    Len(delays) = 2 /\ delays[1] = 1999 /\ delays[2] = 2000

\* C34: a step appends auxiliary context only when it reported
\* analysisComplete = false and its nextAction is get_file_content or
\* explore_project; a nextAction of add_review_comment or mark_as_done hands no
\* comment to the host and leaves analysisComplete as the step reported it;
\* and a fetch that failed leaves the loop of the file running.
stepReturned == totalSteps' = totalSteps + 1 /\ ~lastStepThrew'

C34_AuxiliaryContext ==
    [][ stepReturned =>
          /\ analysisComplete' = reviewStep'.analysisComplete
          /\ fileIdx' = fileIdx /\ pc' \in {"step", "issues"}
          /\ nHanded' = nHanded /\ commentsMade' = commentsMade
          /\ auxContext' # auxContext =>
                /\ ~reviewStep'.analysisComplete
                /\ reviewStep'.nextAction.action \in {"get_file_content", "explore_project"}
                /\ \E ok \in BOOLEAN :
                      auxContext' = Append(auxContext,
                                           [action |-> reviewStep'.nextAction.action, ok |-> ok])
          /\ reviewStep'.nextAction.action \in {"add_review_comment", "mark_as_done"} =>
                auxContext' = auxContext
          /\ (auxContext' # auxContext /\ ~auxContext'[Len(auxContext')].ok) =>
                /\ ~analysisComplete' /\ anyError' = anyError
                /\ (stepCount' < maxSteps => whileCondition(analysisComplete', stepCount')) ]_vars

\* after a failed fetch of auxiliary context the file got another step, whose
\* nextAction was mark_as_done, and its loop is still running
C34_LoopGoesOn ==
    /\ pc = "step"
    /\ stepCount = 2
    /\ auxContext = << [action |-> "get_file_content", ok |-> FALSE] >>
    /\ reviewStep.nextAction.action = "mark_as_done"
    /\ ~analysisComplete
    /\ nHanded = 0

\* C36: in both agents the comment counter is the number of line comments
\* the host accepted in this run: in AnthropicAgent at every moment, in
\* GoogleAgent, which counts after generateText returned, from then on.
C36_CounterIsAccepted ==
    /\ provider = "anthropic" => commentsMade = nAccepted
    /\ (provider = "google" /\ pc \in {"returned", "done"}) => commentsMade = nAccepted

\* GoogleAgent returned with a comment counted that the host never accepted
C36_RejectedCounted ==
    /\ provider = "google"
    /\ pc = "returned"
    /\ nAccepted = 0
    /\ commentsMade = 1

\* C37: once a content is stored in the cache for a path, the cached value of
\* that path stays the same for the rest of the run.
C37_CachedValueStable ==
    [][ \A p \in Paths :
          cacheHas(fileCache, p) => (cacheHas(fileCache', p) /\ fileCache'[p] = fileCache[p])
      ]_vars

\* two different contents were stored for the same path, one after the other
C37_Overwritten ==
    /\ cacheHas(fileCache, PathA)
    /\ Cardinality(cachedEver[PathA]) = 2
    /\ fetches[PathA] = 2

\* C38: an invocation that fails, or that finds no file to review, creates no
\* summary comment (and without files makes no provider call), and the
\* invocation after one that posted no summary resolves the base commit that
\* one resolved.
C38_BaselineKept ==
    /\ thrown \in {"setup", "review", "summary"} => summaryPosts = << >>
    /\ (pc = "done" /\ nFiles = 0 /\ thrown = "none") =>
          (attempts = 0 /\ summaryPosts = << >> /\ nHanded = 0)
    /\ (runs > 0 /\ ~prevPosted /\ prevBase # << >> /\ baseCommit # << >>) =>
          baseCommit = prevBase
    /\ (runs > 0 /\ baseCommit # << >> /\ baseCommit # prevBase /\ prevBase # << >>) =>
          prevPosted

\* the first invocation posted its summary, the second, on a new head, posted
\* none, and the third resolved the base of the second: the first one's head
C38_SameBaseAgain ==
    /\ runs = 2
    /\ ~prevPosted
    /\ prevBase = HeadSha
    /\ baseCommit = HeadSha
    /\ headCommit = ShaB
    /\ comments # << >>

\* C39: whenever doReview returns, in either agent, the summary it returns is
\* a string with something other than white space in it, so that the
\* validation in main accepts it.
C39_SummaryNonBlank ==
    pc = "returned" => (reviewSummary # << >> /\ trim(reviewSummary) # << >>)

\* GoogleAgent returned a summary of white space only and main rejected it
C39_BlankRejected ==
    /\ provider = "google"
    /\ pc = "main_catch"
    /\ thrown = "summary"
    /\ reviewSummary = TextBlank
    /\ attempts = 1

\* C40: the base is resolved from the most recent comment that starts with
\* the marker prefix and from no other comment; when that comment carries no
\* SHA, the base is the base of the pull request, whatever older marker
\* comments carry.
C40_MostRecentMarker ==
    (baseCommit # << >> /\ lastReviewComment(comments) # 0) =>
        LET last == comments[lastReviewComment(comments)]
        IN /\ baseCommit = resolveBaseCommit(<< last >>, PrBaseSha)
           /\ last.sha = << >> => baseCommit = PrBaseSha

\* the most recent marker comment carries no SHA, an older one does, and the
\* base resolved is neither that SHA nor the base of the pull request
C40_WordTakenAsBase ==
    /\ Len(comments) = 2
    /\ comments[1] = MarkerComment(ShaA, TextOk)
    /\ comments[2].sha = << >>
    /\ lastReviewComment(comments) = 2
    /\ baseCommit = TextLgtm

====
